---- MODULE Spec2Model ----
(***************************************************************************)
(* Model of the two relay programs of xml-ftp-to-millennium:               *)
(*   receive.py  - one strict batch: download, relocate on the server      *)
(*                 (RNFR/RNTO, else STOR -> SIZE -> DELE), exit 0 / 2.     *)
(*   send.py     - upload queue with bounded re-enqueueing of failures.    *)
(* Every FTP command is one step whose outcome the server chooses.         *)
(***************************************************************************)
EXTENDS Integers, Sequences, FiniteSets, TLC

\* ------------------------------------------------------------------ bounds
\* Largest candidate list produced by the remote listing (receive.py).
MaxItems == 3
\* Byte size of a complete item; a truncated copy has one byte less.
ItemSize == 2
\* Largest number of local files queued for upload (send.py).
MaxSendItems == 2
MaxEnvioItems == 1
\* Largest numeric suffix of a local file name (name, name_1, ...).
MaxSufixo == 2
\* Largest number of local file operations in one behaviour.
MaxOps == 3
\* Largest number of control connections opened in one behaviour.
MaxConex == 3
\* Largest number of segments of the path given to the provisioner.
MaxSeg == 2

\* ------------------------------------------------------- program constants
MAX_TENTATIVAS_POR_ARQUIVO == 5
BACKOFF_INICIAL_S == 1
RECONNECT_A_CADA == 100
MAX_REPROCESSOS == 3
TAMANHO_LOTE == 100
MAX_TENTATIVAS_ENVIO == 3
MODOS_TRANSFERENCIA == << <<"P", TRUE>>, <<"P", FALSE>> >>
\* Default of the parameter tentativas of assegurar_diretorio_remoto.
TENTATIVAS_PROV == 3

\* --------------------------------------------------------------- values
\* Python's None and a present integer, kept comparable.
None == <<>>
Some(n) == <<n>>

\* No size query was made yet in the attempt.
NaoPerguntado == <<None, None>>

\* A file's content is "none" (absent), "part" (truncated) or "full".

\* What SIZE answers for a remote file with the given content.
TamanhoDe(c) == IF c = "full" THEN Some(ItemSize) ELSE Some(ItemSize - 1)

VARIABLES
    \* ---- receive.py
    pc,              \* position of the strict run
    exitCode,        \* process exit status, None while running
    exitPath,        \* which exit was taken
    ftp,             \* "open" when main/tentar hold a handle, "none" for None
    alive,           \* the control connection of the handle answers commands
    cwd,             \* remote working directory: "origem", "enviado", "root"
    N,               \* len(nomes); the candidates are 1..N in list order
    idx,             \* index of the item being processed
    tent,            \* attempt counter of tentar_processar_arquivo
    backoff,         \* delay the next failed attempt will sleep
    pausa,           \* delay slept after the latest failed attempt
    faltosa,         \* the session went through a TLS error or a reset
                     \* in a fetch or a store and was not replaced since
    tam_local_cache, \* cached local size, None until a fetch succeeded
    origin,          \* content of PASTA_REMOTA_ORIGEM/nome per item
    dest,            \* content of PASTA_REMOTA_ENVIADO/nome per item
    localf,          \* content of caminho_local per item ("empty" = 0 bytes)
    result,          \* per item: "none", "ok" (returned True), "fail"
    \* ---- receive.py, history of the commands issued
    lastSize,        \* answer of the last size query of this attempt
    storDone,        \* a STOR completed in this attempt
    storVerified,    \* the size query after that STOR equalled the cache
    deleIssued,      \* a DELE of the origin was issued in this attempt
    retrComCache,    \* a RETR was issued while a size was cached
    touched,         \* an operation was issued for the item
    vazio,           \* the latest fetch of the item ended with a zero-byte file
    \* ---- send.py
    pcS,             \* position of the requeue run
    NS,              \* len(itens_envio); the items are 1..NS in path order
    ftpS,            \* "open" / "none"
    fila,            \* work queue (deque of items)
    lote,            \* items of the current pass not yet processed
    tentativas_por_arquivo, \* per item attempt counter
    relatorio_envios,       \* list of records [item, status, tentativas, ...]
    item,            \* item being uploaded, 0 when none
    tentativa,       \* loop counter inside enviar_para_ftp
    info,            \* info dict of the running enviar_para_ftp call
    toSend,          \* local file present in the to-send root, per item
    sent,            \* local file present in the sent root, per item
    remoto,          \* content of the uploaded remote file, per item
    falhas,          \* number of enviar_para_ftp calls that ended "falha", per item
    chamadas,        \* total number of enviar_para_ftp calls of the run
    deleEnvio,       \* size answer that preceded the DELE of the latest
                     \* upload attempt, NaoPerguntado when it issued none
    max_tentativas,  \* argument max_tentativas of enviar_para_ftp
    stors,           \* STOR commands issued for each item in the run
    storsChamada,    \* STOR commands issued by the call under way
    modoStor,        \* transfer mode configured for the latest STOR of the call
    \* ---- local folders of both programs
    pastaLocalDestino, \* PASTA_LOCAL_DESTINO: content of name, name_1, ...
    pastaToSend,     \* CAMINHO_PADRAO_TO_SEND: content per relative path
    pastaSend,       \* CAMINHO_PADRAO_SEND: content per relative path
    sobrescritos,    \* <<folder, path>> of every file replaced by a write
    opsLocais,       \* number of local file operations done
    \* ---- sessions of receive.py (handles are 1, 2, ...; 0 is None)
    pcX,             \* position inside main / garantir_conexao / conectar_ftp
    ftpM,            \* handle held by the caller (main, tentar_processar_arquivo)
    ftpG,            \* parameter ftp of the running garantir_conexao
    ftpC,            \* local ftp of the running conectar_ftp
    abertas,         \* handles whose socket this process has open
    vivas,           \* handles whose control connection the server answers
    criadas,         \* number of transports opened so far
    modo,            \* per handle, <<prot, pasv>> last configured
    tentados,        \* combinations tried by the running conectar_ftp
    retC,            \* call site conectar_ftp returns to
    retG,            \* call site garantir_conexao returns to
    cFim,            \* how conectar_ftp ended: "sessao", "none", "excecao"
    cRet,            \* handle returned by conectar_ftp
    exc,             \* kind of the exception in flight
    gProbe,          \* NOOP probe of garantir_conexao: "ok", "falhou", "sem"
    gFim,            \* how garantir_conexao ended: "retornou", "excecao"
    gRet,            \* handle returned by garantir_conexao
    prot_level,      \* _prot_level of main's handle at its latest RETR/STOR
    \* ---- assegurar_diretorio_remoto (receive.py), called twice in a row
    pcA,             \* position inside the provisioner
    ftpA,            \* its local ftp: "open" or "none"
    vivaA,           \* the connection of that handle answers
    reconectou,      \* the running call replaced its handle
    NSeg,            \* number of segments of caminho_abs
    noServidor,          \* how many leading segments exist on the server
    seg,             \* segment being ensured (atual)
    tenta,           \* turn of the inner for loop
    mkdEmitido,      \* the running call issued an MKD
    chamada,         \* 1 or 2: which of the two calls runs
    fimA,            \* how the call ended: "ok", "provisao", "outro"
    segFalha,        \* segment named by the RuntimeError
    saudavel,        \* so far every command was answered by the server
                     \* according to the directory tree
    fim1,            \* how the first call ended
    noServidor1,         \* directory tree after the first call
    mkd1             \* the first call issued an MKD

recvVars == <<pc, exitCode, exitPath, ftp, alive, cwd, N, idx, tent,
              backoff, pausa, faltosa,
              tam_local_cache, origin, dest, localf, result, lastSize,
              storDone, storVerified, deleIssued, retrComCache, touched,
              vazio>>
sendVars == <<pcS, NS, ftpS, fila, lote, tentativas_por_arquivo, relatorio_envios,
              item, tentativa, info, toSend, sent, remoto, falhas, chamadas,
              deleEnvio, max_tentativas, stors, storsChamada, modoStor>>
localVars == <<pastaLocalDestino, pastaToSend, pastaSend, sobrescritos,
               opsLocais>>
sessVars == <<pcX, ftpM, ftpG, ftpC, abertas, vivas, criadas, modo, tentados,
              retC, retG, cFim, cRet, exc, gProbe, gFim, gRet, prot_level>>
provVars == <<pcA, ftpA, vivaA, reconectou, NSeg, noServidor, seg, tenta,
              mkdEmitido, chamada, fimA, segFalha, saudavel, fim1, noServidor1,
              mkd1>>
auxVars == <<localVars, sessVars, provVars>>
vars == <<recvVars, sendVars, auxVars>>

Items == 1..MaxItems
SendItems == 1..MaxSendItems

\* =====================================================================
\* receive.py
\* =====================================================================

\* Outcomes of one control command: accepted, rejected by the server
\* (error_perm, session intact), or the connection failed (reset/EOF/TLS).
CmdOutcomes == IF alive THEN {"ok", "perm", "conn"} ELSE {"conn"}

\* conectar_ftp: a session entered in the origin directory, None when the
\* four protection/mode combinations all fail, or an exception when the
\* transport open, AUTH, login or PBSZ fails (they are outside any try).
ConectarOutcomes == {"ok", "none", "raise"}

SairEContinua(code, path) ==
    /\ pc' = "list"
    /\ exitCode' = Some(code)
    /\ exitPath' = path

\* The process ends with a status.
Sair(code, path) ==
    /\ pc' = "done"
    /\ exitCode' = Some(code)
    /\ exitPath' = path

\* An exception nobody catches: Python prints a traceback and exits 1.
Crash == Sair(1, "crash")

InfoVazio ==
    [status |-> "none", tamanho_local |-> 0, tamanho_remoto |-> None,
     tentativas |-> 0]

\* A handle on which configurar_transferencia never completed.
SemModo == <<>>

\* enviar_para_ftp 253: the call of main 750 leaves max_tentativas at its
\* default; no STOR was issued yet.
InitContagem(m) ==
    /\ max_tentativas = m
    /\ stors = [i \in SendItems |-> 0]
    /\ storsChamada = 0
    /\ modoStor = SemModo

InitSendIdle ==
    /\ pcS = "idle" /\ NS = 0 /\ ftpS = "none" /\ fila = <<>> /\ lote = <<>>
    /\ tentativas_por_arquivo = [i \in SendItems |-> 0]
    /\ relatorio_envios = <<>> /\ item = 0 /\ tentativa = 0
    /\ info = InfoVazio
    /\ toSend = [i \in SendItems |-> FALSE]
    /\ sent = [i \in SendItems |-> FALSE]
    /\ remoto = [i \in SendItems |-> "none"]
    /\ falhas = [i \in SendItems |-> 0]
    /\ chamadas = 0
    /\ deleEnvio = NaoPerguntado
    /\ InitContagem(MAX_TENTATIVAS_ENVIO)

\* The local folders when no local file operation is modelled.
Caminhos == 0..MaxSufixo

InitLocalIdle ==
    /\ pastaLocalDestino = [c \in Caminhos |-> "livre"]
    /\ pastaToSend = [c \in Caminhos |-> "livre"]
    /\ pastaSend = [c \in Caminhos |-> "livre"]
    /\ sobrescritos = {}
    /\ opsLocais = 0

Handles == 1..MaxConex

InitSess(p) ==
    /\ pcX = p
    /\ ftpM = 0 /\ ftpG = 0 /\ ftpC = 0
    /\ abertas = {} /\ vivas = {} /\ criadas = 0
    /\ modo = [h \in Handles |-> SemModo]
    /\ tentados = <<>>
    /\ retC = "none" /\ retG = "none"
    /\ cFim = "none" /\ cRet = 0 /\ exc = "none"
    /\ gProbe = "none" /\ gFim = "none" /\ gRet = 0
    /\ prot_level = "none"

InitProv(p, n, e, v) ==
    /\ pcA = p
    /\ ftpA = "open" /\ vivaA = v /\ reconectou = FALSE
    /\ NSeg = n /\ noServidor = e
    /\ seg = 0 /\ tenta = 0 /\ mkdEmitido = FALSE
    /\ chamada = 1 /\ fimA = "none" /\ segFalha = 0
    /\ saudavel = v
    /\ fim1 = "none" /\ noServidor1 = 0 /\ mkd1 = FALSE

InitAuxIdle ==
    InitLocalIdle /\ InitSess("off") /\ InitProv("off", 0, 0, FALSE)

InitRecv(p, n) ==
    /\ pc = p
    /\ exitCode = None /\ exitPath = "none"
    /\ ftp = "none" /\ alive = FALSE /\ cwd = "root"
    /\ N = n
    /\ idx = 0 /\ tent = 0
    /\ backoff = BACKOFF_INICIAL_S /\ pausa = None /\ faltosa = FALSE
    /\ vazio = FALSE
    /\ tam_local_cache = None
    /\ origin = [i \in Items |-> IF i <= N THEN "full" ELSE "none"]
    /\ dest = [i \in Items |-> "none"]
    /\ localf = [i \in Items |-> "none"]
    /\ result = [i \in Items |-> "none"]
    /\ lastSize = NaoPerguntado /\ storDone = FALSE /\ storVerified = FALSE
    /\ deleIssued = FALSE
    /\ retrComCache = FALSE
    /\ touched = [i \in Items |-> FALSE]

\* The strict run starts with any candidate list of up to MaxItems names.
Init ==
    /\ \E n \in 0..MaxItems : InitRecv("connect", n)
    /\ InitSendIdle
    /\ InitAuxIdle

histUnch == UNCHANGED <<deleIssued, retrComCache, touched, faltosa, vazio>>

\* --------------------------------------------------------------- main
\* main 462-466: initial connection.
MainConnect ==
    /\ pc = "connect"
    /\ \E o \in ConectarOutcomes :
         \/ /\ o = "ok"
            /\ ftp' = "open" /\ alive' = TRUE /\ cwd' = "origem"
            /\ pc' = "cwd_origem"
            /\ UNCHANGED <<exitCode, exitPath>>
         \/ /\ o = "none"
            /\ Sair(2, "setup")
            /\ UNCHANGED <<ftp, alive, cwd>>
         \/ /\ o = "raise"
            /\ Crash
            /\ UNCHANGED <<ftp, alive, cwd>>
    /\ UNCHANGED <<N, idx, tent, backoff, pausa, tam_local_cache, origin, dest, localf, result,
                   lastSize, storDone, storVerified>>
    /\ histUnch
    /\ UNCHANGED <<sendVars, auxVars>>

\* main 470-474: enter the origin directory or exit 2.
MainCwdOrigem ==
    /\ pc = "cwd_origem"
    /\ \E o \in CmdOutcomes :
         \/ /\ o = "ok"
            /\ cwd' = "origem" /\ pc' = "provision"
            /\ UNCHANGED <<alive, exitCode, exitPath>>
         \/ /\ o # "ok"
            /\ alive' = (o = "perm")
            /\ Sair(2, "setup")
            /\ UNCHANGED cwd
    /\ UNCHANGED <<ftp, N, idx, tent, backoff, pausa, tam_local_cache, origin, dest, localf,
                   result, lastSize, storDone, storVerified>>
    /\ histUnch
    /\ UNCHANGED <<sendVars, auxVars>>

\* assegurar_diretorio_remoto as seen by its callers: it returns a working
\* session, with the previous directory restored when possible (else it
\* stays in the provisioned directory, or in "/" when pwd failed and the
\* session was re-established), or it raises.
AssegurarOutcomes ==
    {[ok |-> TRUE, alive |-> TRUE, cwd |-> c] : c \in {cwd, "enviado", "root"}}
    \cup {[ok |-> FALSE, alive |-> a, cwd |-> cwd] : a \in {alive, FALSE}}

\* main 476-481: provision PASTA_REMOTA_ENVIADO once, or exit 2.
MainProvision ==
    /\ pc = "provision"
    /\ \E r \in AssegurarOutcomes :
         /\ alive' = r.alive /\ cwd' = r.cwd
         /\ IF r.ok
               THEN pc' = "list" /\ UNCHANGED <<exitCode, exitPath>>
               ELSE Sair(2, "setup")
    /\ UNCHANGED <<ftp, N, idx, tent, backoff, pausa, tam_local_cache, origin, dest, localf,
                   result, lastSize, storDone, storVerified>>
    /\ histUnch
    /\ UNCHANGED <<sendVars, auxVars>>

\* main 483-491: the candidate list; an empty list ends the run with 0.
MainList ==
    /\ pc = "list"
    /\ IF N = 0
          THEN Sair(0, "vazio") /\ UNCHANGED idx
          ELSE idx' = 1 /\ pc' = "garantir" /\ UNCHANGED <<exitCode, exitPath>>
    /\ UNCHANGED <<ftp, alive, cwd, N, tent, backoff, pausa, tam_local_cache, origin, dest,
                   localf, result, lastSize, storDone, storVerified>>
    /\ histUnch
    /\ UNCHANGED <<sendVars, auxVars>>

\* garantir_conexao 124-147: the same handle when NOOP answers, else the
\* result of conectar_ftp.
GarantirOutcomes ==
    (IF ftp = "open" /\ alive THEN {"same"} ELSE {}) \cup ConectarOutcomes

\* main 493-499 and tentar_processar_arquivo 325-337: ensure the session,
\* then enter the per-item function (tent = 1, no cached size).
MainGarantir ==
    /\ pc = "garantir"
    /\ \E o \in GarantirOutcomes :
         \/ /\ o \in {"same", "ok"}
            /\ ftp' = "open" /\ alive' = TRUE
            /\ cwd' = IF o = "ok" THEN "origem" ELSE cwd
            /\ tent' = 1 /\ tam_local_cache' = None
            /\ backoff' = BACKOFF_INICIAL_S /\ pausa' = None
            /\ touched' = [touched EXCEPT ![idx] = TRUE]
            /\ pc' = "keepalive"
            /\ UNCHANGED <<exitCode, exitPath>>
         \/ /\ o = "none"
            /\ ftp' = "none" /\ alive' = FALSE
            /\ Sair(2, "sessao")
            /\ UNCHANGED <<cwd, tent, backoff, pausa, tam_local_cache, touched>>
         \/ /\ o = "raise"
            /\ alive' = FALSE
            /\ Crash
            /\ UNCHANGED <<ftp, cwd, tent, backoff, pausa, tam_local_cache, touched>>
    /\ UNCHANGED <<N, idx, origin, dest, localf, result, lastSize, storDone,
                   storVerified, deleIssued, retrComCache>>
    /\ faltosa' = FALSE /\ vazio' = FALSE
    /\ UNCHANGED <<sendVars, auxVars>>

\* ---------------------------------------------- tentar_processar_arquivo
ProximoBackoffSoma(b) == b + BACKOFF_INICIAL_S

\* 381 / 390 / 452: backoff *= 2.
ProximoBackoff(b) == b * 2

ContinuaTentandoMaisUma(t) == t <= MAX_TENTATIVAS_POR_ARQUIVO + 1

\* 339: the loop test of tentar_processar_arquivo.
ContinuaTentando(t) == t <= MAX_TENTATIVAS_POR_ARQUIVO

\* Positions inside one attempt (340-449).
PosicoesDaTentativa ==
    {"keepalive", "download", "rename", "verify_rename", "fb_cwd", "stor",
     "verify_stor", "dele"}

\* The batch loop without its exit on a failed item.
FalhaTentativaContinua ==
    /\ pausa' = Some(backoff) /\ backoff' = ProximoBackoff(backoff)
    /\ tent' = tent + 1
    /\ IF ContinuaTentando(tent + 1)
          THEN /\ pc' = "keepalive"
               /\ UNCHANGED <<result, exitCode, exitPath>>
          ELSE /\ result' = [result EXCEPT ![idx] = "fail"]
               /\ pc' = "main_keepalive"
               /\ UNCHANGED <<exitCode, exitPath>>

\* 381 / 390 / 452: backoff, tent += 1; 339 loop test; 454-456 return False,
\* on which main (500-502) exits 2.
FalhaTentativa ==
    /\ pausa' = Some(backoff) /\ backoff' = ProximoBackoff(backoff)
    /\ tent' = tent + 1
    /\ IF ContinuaTentando(tent + 1)
          THEN /\ pc' = "keepalive"
               /\ UNCHANGED <<result, exitCode, exitPath>>
          ELSE /\ result' = [result EXCEPT ![idx] = "fail"]
               /\ Sair(2, "falha")

\* 446-449 return True; main 499-503 goes on.
RetornaSucesso ==
    /\ result' = [result EXCEPT ![idx] = "ok"]
    /\ pc' = "main_keepalive"
    /\ UNCHANGED <<tent, backoff, pausa, exitCode, exitPath>>

\* 354: periodic reconnect by count, on the first attempt of an item.
ReconexaoPeriodica(i, t) ==
    /\ RECONNECT_A_CADA # 0
    /\ (i - 1) % RECONNECT_A_CADA = 0
    /\ i > 1
    /\ t = 1

\* 339-362: defensive NOOP; on failure (or periodically) QUIT and reconnect;
\* no session -> return (None, False).
Keepalive ==
    /\ pc = "keepalive"
    /\ lastSize' = NaoPerguntado /\ storDone' = FALSE /\ storVerified' = FALSE
    /\ deleIssued' = FALSE
    /\ \/ /\ alive /\ ~ReconexaoPeriodica(idx, tent)
          /\ pc' = "download"
          /\ UNCHANGED <<ftp, alive, cwd, result, exitCode, exitPath, faltosa>>
       \/ \E o \in ConectarOutcomes :
            \/ /\ o = "ok"
               /\ ftp' = "open" /\ alive' = TRUE /\ cwd' = "origem"
               /\ faltosa' = FALSE
               /\ pc' = "download"
               /\ UNCHANGED <<result, exitCode, exitPath>>
            \/ /\ o = "none"
               /\ ftp' = "none" /\ alive' = FALSE
               /\ result' = [result EXCEPT ![idx] = "fail"]
               /\ Sair(2, "falha")
               /\ UNCHANGED <<cwd, faltosa>>
            \/ /\ o = "raise"
               /\ alive' = FALSE
               /\ Crash
               /\ UNCHANGED <<ftp, cwd, result, faltosa>>
    /\ UNCHANGED <<N, idx, tent, backoff, pausa, tam_local_cache, origin, dest, localf,
                   retrComCache, touched>>
    /\ vazio' = FALSE
    /\ UNCHANGED <<sendVars, auxVars>>

RemoveLocalNao(c) == c

\* 384-388: os.remove(caminho_local) of whatever the fetch wrote ("vazio": a
\* zero-byte file).
RemoveLocal(c) == "none"

DeveBaixarSempre(cache) == TRUE

\* 367: the file is fetched only while no size is cached.
DeveBaixar(cache) == cache = None

\* 364-392: download once; zero bytes or any error fails the attempt.
Download ==
    /\ pc = "download"
    /\ IF ~DeveBaixar(tam_local_cache)
          THEN /\ pc' = "rename"
               /\ UNCHANGED <<alive, tent, backoff, pausa, tam_local_cache, localf, result,
                              exitCode, exitPath, retrComCache, faltosa,
                              vazio>>
          ELSE /\ retrComCache' = (retrComCache \/ tam_local_cache # None)
               /\ \/ /\ alive /\ cwd = "origem" /\ origin[idx] # "none"
                     \* RETR completed, os.path.getsize > 0
                     /\ localf' = [localf EXCEPT ![idx] = origin[idx]]
                     /\ tam_local_cache' = TamanhoDe(origin[idx])
                     /\ pc' = "rename"
                     /\ vazio' = FALSE
                     /\ UNCHANGED <<alive, tent, backoff, pausa, result, exitCode,
                                    exitPath, faltosa>>
                  \/ /\ alive
                     \* RETR completed with zero bytes: RuntimeError, 383-392
                     /\ localf' = [localf EXCEPT ![idx] = RemoveLocal("vazio")]
                     /\ tam_local_cache' = None
                     /\ vazio' = TRUE
                     /\ FalhaTentativa
                     /\ UNCHANGED <<alive, faltosa>>
                  \/ /\ alive
                     \* ssl.SSLError during RETR, 378-382: file left as written
                     /\ localf' = [localf EXCEPT ![idx] = "part"]
                     /\ alive' \in BOOLEAN
                     /\ faltosa' = TRUE /\ vazio' = FALSE
                     /\ FalhaTentativa
                     /\ UNCHANGED tam_local_cache
                  \/ \E o \in CmdOutcomes \ {"ok"} :
                     \* any other error, 383-392: local file removed
                     /\ localf' = [localf EXCEPT ![idx] = RemoveLocal("part")]
                     /\ tam_local_cache' = None
                     /\ alive' = (o = "perm")
                     /\ faltosa' = (faltosa \/ o = "conn") /\ vazio' = FALSE
                     /\ FalhaTentativa
    /\ UNCHANGED <<ftp, cwd, N, idx, origin, dest, lastSize, storDone,
                   storVerified, deleIssued, touched>>
    /\ UNCHANGED <<sendVars, auxVars>>

\* ftplib rename (RNFR/RNTO) of `nome`, relative to the working directory,
\* onto destino_abs.  In the origin directory it moves the origin file over
\* the destination; in the destination directory it renames the file onto
\* itself; elsewhere there is nothing to rename.
FonteRename(dir, i) ==
    IF dir = "origem" THEN origin[i]
    ELSE IF dir = "enviado" THEN dest[i]
    ELSE "none"

\* 398-404 and 407-410: best-effort cwd to the origin, then the rename.
\* A rename that was committed but whose reply was lost raises as well.
Rename ==
    /\ pc = "rename"
    /\ \E dir \in (IF alive THEN {"origem", cwd} ELSE {cwd}) :
         /\ cwd' = dir
         /\ \/ /\ alive /\ FonteRename(dir, idx) # "none"
               /\ \E replyLost \in BOOLEAN :
                    /\ alive' = ~replyLost
                    /\ pc' = IF replyLost THEN "fb_cwd" ELSE "verify_rename"
               /\ IF dir = "origem"
                     THEN /\ dest' = [dest EXCEPT ![idx] = origin[idx]]
                          /\ origin' = [origin EXCEPT ![idx] = "none"]
                     ELSE UNCHANGED <<origin, dest>>
            \/ \E o \in CmdOutcomes \ {"ok"} :
               /\ alive' = (o = "perm")
               /\ pc' = "fb_cwd"
               /\ UNCHANGED <<origin, dest>>
    /\ UNCHANGED <<exitCode, exitPath, ftp, N, idx, tent, backoff, pausa, tam_local_cache,
                   localf, result, lastSize, storDone, storVerified>>
    /\ histUnch
    /\ UNCHANGED <<sendVars, auxVars>>

\* _cwd_and_size 217-242: SIZE of the absolute path, else cwd to the
\* directory and SIZE of the name; None when neither answers.  A missing
\* file has no size.
CwdAndSize(c) ==
    IF alive
       THEN (IF c # "none" THEN {[ans |-> TamanhoDe(c), alive |-> TRUE]} ELSE {})
            \cup {[ans |-> None, alive |-> TRUE], [ans |-> None, alive |-> FALSE]}
       ELSE {[ans |-> None, alive |-> FALSE]}

RemotoConfereSemNone(sz, tamanho_esperado) == sz = None \/ sz = tamanho_esperado

RemotoConfereSoPresente(sz, tamanho_esperado) == sz # None

remoto_confere_nunca(sz, tamanho_esperado) == FALSE

\* remoto_confere_tamanho 244-246.
remoto_confere_tamanho(sz, tamanho_esperado) ==
    (sz # None) /\ (sz = tamanho_esperado)

\* 405-406: size check of the destination after the rename.
VerifyRename ==
    /\ pc = "verify_rename"
    /\ \E r \in CwdAndSize(dest[idx]) :
         /\ lastSize' = r.ans
         /\ alive' = r.alive
         /\ IF remoto_confere_tamanho(r.ans, tam_local_cache)
               THEN RetornaSucesso
               ELSE /\ pc' = "fb_cwd"
                    /\ UNCHANGED <<tent, backoff, pausa, result, exitCode, exitPath>>
    /\ UNCHANGED <<ftp, cwd, N, idx, tam_local_cache, origin, dest, localf,
                   storDone, storVerified>>
    /\ histUnch
    /\ UNCHANGED <<sendVars, auxVars>>

\* 413-419: enter the destination directory, provisioning it on failure;
\* an exception of the provisioner fails the attempt (442-444).
FallbackCwd ==
    /\ pc = "fb_cwd"
    /\ \/ /\ alive
          /\ cwd' = "enviado" /\ pc' = "stor"
          /\ UNCHANGED <<alive, tent, backoff, pausa, result, exitCode, exitPath>>
       \/ \E r \in AssegurarOutcomes :
            /\ alive' = r.alive /\ cwd' = r.cwd
            /\ IF r.ok
                  THEN /\ pc' = "stor"
                       /\ UNCHANGED <<tent, backoff, pausa, result, exitCode, exitPath>>
                  ELSE FalhaTentativa
    /\ UNCHANGED <<ftp, N, idx, tam_local_cache, origin, dest, localf,
                   lastSize, storDone, storVerified>>
    /\ histUnch
    /\ UNCHANGED <<sendVars, auxVars>>

\* 421-423 and 438-444: STOR of the local file onto destino_abs.  The upload
\* replaces the destination; a transfer that breaks midway leaves a
\* truncated file there.
Stor ==
    /\ pc = "stor"
    /\ \/ /\ alive
          /\ dest' = [dest EXCEPT ![idx] = localf[idx]]
          /\ \E replyLost \in BOOLEAN :
               /\ alive' = ~replyLost
               /\ faltosa' = (faltosa \/ replyLost)
               /\ IF replyLost
                     THEN FalhaTentativa /\ UNCHANGED storDone
                     ELSE /\ storDone' = TRUE /\ pc' = "verify_stor"
                          /\ UNCHANGED <<tent, backoff, pausa, result, exitCode,
                                         exitPath>>
       \/ /\ alive
          /\ dest' = [dest EXCEPT ![idx] = "part"]
          /\ alive' \in BOOLEAN
          /\ faltosa' = TRUE
          /\ FalhaTentativa
          /\ UNCHANGED storDone
       \/ \E o \in CmdOutcomes \ {"ok"} :
          /\ alive' = (o = "perm")
          /\ faltosa' = (faltosa \/ o = "conn")
          /\ FalhaTentativa
          /\ UNCHANGED <<dest, storDone>>
    /\ UNCHANGED <<ftp, cwd, N, idx, tam_local_cache, origin, localf,
                   lastSize, storVerified>>
    /\ UNCHANGED <<deleIssued, retrComCache, touched, vazio>>
    /\ UNCHANGED <<sendVars, auxVars>>

\* 425 and 435-437: size check of the destination after the STOR.
VerifyStor ==
    /\ pc = "verify_stor"
    /\ \E r \in CwdAndSize(dest[idx]) :
         /\ lastSize' = r.ans
         /\ alive' = r.alive
         /\ IF remoto_confere_tamanho(r.ans, tam_local_cache)
               THEN /\ storVerified' = TRUE /\ pc' = "dele"
                    /\ UNCHANGED <<tent, backoff, pausa, result, exitCode, exitPath>>
               ELSE FalhaTentativa /\ UNCHANGED storVerified
    /\ UNCHANGED <<ftp, cwd, N, idx, tam_local_cache, origin, dest, localf,
                   storDone>>
    /\ histUnch
    /\ UNCHANGED <<sendVars, auxVars>>

\* 426-434: DELE of the origin by absolute path; on error_perm a second
\* DELE by bare name, which the server resolves in the working directory;
\* its failure is ignored.  Any other exception of the first DELE fails the
\* attempt (442-444).
Dele ==
    /\ pc = "dele"
    /\ deleIssued' = TRUE
    /\ \/ /\ alive /\ origin[idx] # "none"
          /\ origin' = [origin EXCEPT ![idx] = "none"]
          /\ \E replyLost \in BOOLEAN :
               /\ alive' = ~replyLost
               /\ IF replyLost THEN FalhaTentativa ELSE RetornaSucesso
          /\ UNCHANGED dest
       \/ /\ alive
          \* error_perm, then ftp.delete(nome)
          /\ \/ /\ FonteRename(cwd, idx) # "none"
                /\ IF cwd = "origem"
                      THEN /\ origin' = [origin EXCEPT ![idx] = "none"]
                           /\ UNCHANGED dest
                      ELSE /\ dest' = [dest EXCEPT ![idx] = "none"]
                           /\ UNCHANGED origin
                /\ UNCHANGED alive
             \/ /\ alive' \in BOOLEAN
                /\ UNCHANGED <<origin, dest>>
          /\ RetornaSucesso
       \/ \* any other error of the first DELE (4xx reply, reset, TLS)
          /\ alive' \in {alive, FALSE}
          /\ FalhaTentativa
          /\ UNCHANGED <<origin, dest>>
    /\ UNCHANGED <<ftp, cwd, N, idx, tam_local_cache, localf, lastSize,
                   storDone, storVerified, retrComCache, touched, faltosa,
                   vazio>>
    /\ UNCHANGED <<sendVars, auxVars>>

\* main 504-513: keepalive by elapsed time (NOOP, garantir_conexao on
\* failure), then the next item, or exit 0 after the last one.  The locals
\* of the returned tentar_processar_arquivo are gone when the loop goes on.
MainKeepalive ==
    /\ pc = "main_keepalive"
    /\ \/ UNCHANGED <<ftp, alive, cwd>>
       \/ \E o \in {"ok", "none"} :
            /\ ftp' = IF o = "ok" THEN "open" ELSE "none"
            /\ alive' = (o = "ok")
            /\ cwd' = IF o = "ok" THEN "origem" ELSE cwd
    /\ IF idx = N
          THEN /\ Sair(0, "todos")
               /\ UNCHANGED <<idx, tent, backoff, pausa, tam_local_cache, lastSize, storDone,
                              storVerified, deleIssued>>
          ELSE /\ idx' = idx + 1 /\ pc' = "garantir"
               /\ tent' = 0 /\ tam_local_cache' = None
               /\ backoff' = BACKOFF_INICIAL_S /\ pausa' = None
               /\ lastSize' = NaoPerguntado
               /\ storDone' = FALSE /\ storVerified' = FALSE
               /\ deleIssued' = FALSE
               /\ UNCHANGED <<exitCode, exitPath>>
    /\ UNCHANGED <<N, origin, dest, localf, result, retrComCache, touched>>
    /\ faltosa' = FALSE /\ vazio' = FALSE
    /\ UNCHANGED <<sendVars, auxVars>>

\* main 504-510 when the reconnect inside garantir_conexao raises.
MainKeepaliveCrash ==
    /\ pc = "main_keepalive"
    /\ alive' = FALSE
    /\ Crash
    /\ UNCHANGED <<ftp, cwd, N, idx, tent, backoff, pausa, tam_local_cache, origin, dest,
                   localf, result, lastSize, storDone, storVerified>>
    /\ histUnch
    /\ UNCHANGED <<sendVars, auxVars>>

Next ==
    \/ MainConnect \/ MainCwdOrigem \/ MainProvision \/ MainList
    \/ MainGarantir \/ Keepalive \/ Download \/ Rename \/ VerifyRename
    \/ FallbackCwd \/ Stor \/ VerifyStor \/ Dele
    \/ MainKeepalive \/ MainKeepaliveCrash

Spec == Init /\ [][Next]_vars

\* =====================================================================
\* send.py
\* =====================================================================
FimS == {"fim", "fim_vazio", "fim_conexao"}

InitSend ==
    /\ InitRecv("off", 0)
    /\ pcS = "start"
    /\ NS \in 0..MaxSendItems
    /\ ftpS = "none" /\ fila = <<>> /\ lote = <<>>
    /\ tentativas_por_arquivo = [i \in SendItems |-> 0]
    /\ relatorio_envios = <<>> /\ item = 0 /\ tentativa = 0
    /\ info = InfoVazio
    /\ toSend = [i \in SendItems |-> i <= NS]
    /\ sent = [i \in SendItems |-> FALSE]
    /\ remoto = [i \in SendItems |-> "none"]
    /\ falhas = [i \in SendItems |-> 0]
    /\ chamadas = 0
    /\ deleEnvio = NaoPerguntado
    /\ InitContagem(MAX_TENTATIVAS_ENVIO)
    /\ InitAuxIdle

\* conectar_ftp of send.py 137-185: every failure is caught and gives None.
ConectarEnvioOutcomes == {"open", "none"}

\* main 709-725: nothing to send, or no initial session: return; else the
\* queue holds the collected items in path order.
SendStart ==
    /\ pcS = "start"
    /\ IF NS = 0
          THEN pcS' = "fim_vazio" /\ UNCHANGED <<ftpS, fila>>
          ELSE \E c \in ConectarEnvioOutcomes :
                 /\ ftpS' = c
                 /\ IF c = "none"
                       THEN pcS' = "fim_conexao" /\ UNCHANGED fila
                       ELSE pcS' = "loop" /\ fila' = [i \in 1..NS |-> i]
    /\ UNCHANGED <<NS, lote, tentativas_por_arquivo, relatorio_envios, item,
                   tentativa, info, toSend, sent, remoto, falhas, chamadas,
                   deleEnvio, max_tentativas, stors, storsChamada, modoStor>>
    /\ UNCHANGED <<recvVars, auxVars>>

Min(a, b) == IF a <= b THEN a ELSE b

\* main 727-732: take up to TAMANHO_LOTE items from the head of the queue;
\* 801-826: an empty queue ends the run (QUIT, report).
SendLote ==
    /\ pcS = "loop"
    /\ IF fila = <<>>
          THEN /\ pcS' = "fim" /\ ftpS' = "none"
               /\ UNCHANGED <<fila, lote>>
          ELSE LET k == Min(Len(fila), TAMANHO_LOTE) IN
               /\ lote' = SubSeq(fila, 1, k)
               /\ fila' = SubSeq(fila, k + 1, Len(fila))
               /\ pcS' = "item"
               /\ UNCHANGED ftpS
    /\ UNCHANGED <<NS, tentativas_por_arquivo, relatorio_envios, item,
                   tentativa, info, toSend, sent, remoto, falhas, chamadas,
                   deleEnvio, max_tentativas, stors, storsChamada, modoStor>>
    /\ UNCHANGED <<recvVars, auxVars>>

\* main 734-750: next item of the pass; its counter goes up by one; the
\* session is closed and reopened; enviar_para_ftp is called.  785: end of
\* the pass.
SendItem ==
    /\ pcS = "item"
    /\ IF lote = <<>>
          THEN /\ pcS' = "loop"
               /\ UNCHANGED <<lote, item, tentativas_por_arquivo, chamadas,
                              ftpS>>
          ELSE LET i == Head(lote) IN
               /\ item' = i /\ lote' = Tail(lote)
               /\ tentativas_por_arquivo' =
                      [tentativas_por_arquivo EXCEPT ![i] = @ + 1]
               /\ chamadas' = chamadas + 1
               /\ ftpS' \in ConectarEnvioOutcomes
               /\ pcS' = "chamada"
    /\ UNCHANGED <<NS, fila, relatorio_envios, sent, remoto, falhas, deleEnvio,
                   toSend, info, tentativa,
                   max_tentativas, stors, storsChamada, modoStor>>
    /\ UNCHANGED <<recvVars, auxVars>>

InfoIgnoradoComoFalha ==
    [status |-> "falha", tamanho_local |-> 0, tamanho_remoto |-> None,
     tentativas |-> 0]

\* enviar_para_ftp 273-281: the result for a missing local file.
InfoIgnorado ==
    [status |-> "ignorado", tamanho_local |-> 0, tamanho_remoto |-> None,
     tentativas |-> 0]

\* enviar_para_ftp 272-297: a missing local file returns InfoIgnorado and
\* the handle at once; else the size is read and the attempts begin.
EnviarInicio ==
    /\ pcS = "chamada"
    /\ \E existe \in {toSend[item], FALSE} :
         /\ toSend' = [toSend EXCEPT ![item] = existe]
         /\ IF existe
               THEN /\ info' = [status |-> "pendente",
                                tamanho_local |-> ItemSize,
                                tamanho_remoto |-> None,
                                tentativas |-> 0]
                    /\ tentativa' = 1
                    /\ pcS' = "envio"
               ELSE /\ info' = InfoIgnorado
                    /\ tentativa' = 0
                    /\ pcS' = "registro"
    /\ UNCHANGED <<NS, ftpS, fila, lote, item, tentativas_por_arquivo, chamadas,
                   relatorio_envios, sent, remoto, falhas, deleEnvio,
                   max_tentativas, stors, storsChamada, modoStor>>
    /\ UNCHANGED <<recvVars, auxVars>>

\* enviar_para_ftp 356-361: next inner attempt, or "falha" after the last.
NumTentativasMaisUma(m) ==
    (IF m <= 0 THEN Len(MODOS_TRANSFERENCIA) ELSE m) + 1

\* enviar_para_ftp 299-302: the number of turns of the loop.
NumTentativas(m) == IF m <= 0 THEN Len(MODOS_TRANSFERENCIA) ELSE m

\* enviar_para_ftp 303: the mode of attempt t.
ModoDaTentativa(t) ==
    MODOS_TRANSFERENCIA[((t - 1) % Len(MODOS_TRANSFERENCIA)) + 1]

\* The STOR of attempt `tentativa` (320-323) is noted when the run keeps
\* count of them.
NotaStor(conta, emitiu) ==
    IF conta /\ emitiu
       THEN /\ stors' = [stors EXCEPT ![item] = @ + 1]
            /\ storsChamada' = storsChamada + 1
            /\ modoStor' = ModoDaTentativa(tentativa)
       ELSE UNCHANGED <<stors, storsChamada, modoStor>>

ProximaTentativa(inf) ==
    IF tentativa < NumTentativas(max_tentativas)
       THEN /\ tentativa' = tentativa + 1
            /\ info' = inf
            /\ pcS' = "envio"
       ELSE /\ info' = [inf EXCEPT !.status = "falha"]
            /\ pcS' = "registro"
            /\ UNCHANGED tentativa

ConfereEnvioNunca(tamanho_remoto, tamanho_local) == FALSE

ConfereEnvioAusente(tamanho_remoto, tamanho_local) ==
    tamanho_remoto = None \/ tamanho_remoto = Some(tamanho_local)

ConfereEnvioQualquer(tamanho_remoto, tamanho_local) == tamanho_remoto # None

\* enviar_para_ftp 327: the upload is confirmed when the remote size is known
\* and equals the local size.
ConfereEnvio(tamanho_remoto, tamanho_local) ==
    tamanho_remoto # None /\ tamanho_remoto = Some(tamanho_local)

\* What verificar_arquivo_remoto (98-135) can answer after a STOR that
\* returned: nothing, the size of a truncated file, the size of the file.
RespostasTamanho == {None, Some(ItemSize - 1), Some(ItemSize)}

\* Content of the remote file for which the server gives the answer.
ConteudoDe(sz) == IF sz = Some(ItemSize - 1) THEN "part" ELSE "full"

\* enviar_para_ftp 302-356: one inner attempt.  No session: return "falha".
\* STOR then size check: equal -> "sucesso"; different -> DELE of the
\* remote file and retry; any exception -> session closed and retry.
TentativaDeEnvio(conta) ==
    /\ pcS = "envio"
    /\ \E c \in (IF ftpS = "open" THEN {"open"} ELSE {}) \cup ConectarEnvioOutcomes :
         IF c = "none"
            THEN /\ ftpS' = "none"
                 /\ info' = [info EXCEPT !.tentativas = tentativa,
                                         !.status = "falha"]
                 /\ pcS' = "registro"
                 /\ deleEnvio' = NaoPerguntado
                 /\ NotaStor(conta, FALSE)
                 /\ UNCHANGED <<tentativa, remoto>>
            ELSE LET inf == [info EXCEPT !.tentativas = tentativa] IN
                 \/ \* 322-325: STOR returned and the size was asked
                    \E sz \in RespostasTamanho :
                       /\ NotaStor(conta, TRUE)
                       /\ IF ConfereEnvio(sz, inf.tamanho_local)
                          THEN \* 327-334: confirmed
                               /\ remoto' = [remoto EXCEPT ![item] = ConteudoDe(sz)]
                               /\ info' = [inf EXCEPT !.tamanho_remoto = sz,
                                                      !.status = "sucesso"]
                               /\ ftpS' = "open"
                               /\ pcS' = "registro"
                               /\ deleEnvio' = NaoPerguntado
                               /\ UNCHANGED tentativa
                          ELSE \* 336-345: not confirmed; DELE of the remote file
                               \E apagou \in BOOLEAN :
                                  /\ remoto' = [remoto EXCEPT ![item] =
                                                   IF apagou THEN "none"
                                                   ELSE ConteudoDe(sz)]
                                  /\ deleEnvio' = sz
                                  /\ ftpS' = "open"
                                  /\ ProximaTentativa([inf EXCEPT !.tamanho_remoto = sz])
                 \/ \* 347-354: exception, before the STOR was sent or after;
                    \* whatever was written stays
                    \E c2 \in {remoto[item], "part", "full"} :
                    \E emitiu \in {c2 # remoto[item], TRUE} :
                       /\ NotaStor(conta, emitiu)
                       /\ remoto' = [remoto EXCEPT ![item] = c2]
                       /\ ftpS' = "none"
                       /\ deleEnvio' = NaoPerguntado
                       /\ ProximaTentativa(inf)
    /\ UNCHANGED <<NS, fila, lote, tentativas_por_arquivo, relatorio_envios,
                   item, toSend, sent, falhas, chamadas, max_tentativas>>
    /\ UNCHANGED <<recvVars, auxVars>>

\* The attempt in the run of main, where the STORs are not counted.
EnviarTentativa == TentativaDeEnvio(FALSE)

DeveReagendarNunca(tentativa_atual) == FALSE

DeveReagendarAteCap(tentativa_atual) == tentativa_atual <= MAX_REPROCESSOS

\* main 773: a failed item is re-enqueued while its counter is below the cap.
DeveReagendar(tentativa_atual) == tentativa_atual < MAX_REPROCESSOS

TentativasDoEnvio(inf, tentativa_atual) == inf.tentativas

\* main 751: the record carries the per-item counter of the run.
TentativasRegistradas(inf, tentativa_atual) == tentativa_atual

RegistraFalhaSempre(rel, r, tentativa_atual) == Append(rel, r)

\* main 772-783: a failed call adds its record only when the item is not
\* re-enqueued.
RegistraFalha(rel, r, tentativa_atual) ==
    IF DeveReagendar(tentativa_atual) THEN rel ELSE Append(rel, r)

ReenfileiraNaFrente(q, i, tentativa_atual) ==
    IF DeveReagendar(tentativa_atual) THEN <<i>> \o q ELSE q

\* main 773-774: a failed item goes back to the tail of the queue.
Reenfileira(q, i, tentativa_atual) ==
    IF DeveReagendar(tentativa_atual) THEN Append(q, i) ELSE q

Registro(i, inf, t) ==
    [arquivo |-> i, status |-> inf.status, tentativas |-> t,
     tamanho_local |-> inf.tamanho_local, tamanho_remoto |-> inf.tamanho_remoto]

\* main 751-783: success: move the file to the sent root (a failed move is
\* only noted) and record; ignored: record; failure: re-enqueue at the tail
\* while below the cap, else record.
SendRegistro ==
    /\ pcS = "registro"
    /\ LET t == tentativas_por_arquivo[item]
           r == Registro(item, info, TentativasRegistradas(info, t))
       IN
       \/ /\ info.status = "sucesso"
          /\ \E moveu \in BOOLEAN :
               /\ toSend' = [toSend EXCEPT ![item] = ~moveu]
               /\ sent' = [sent EXCEPT ![item] = moveu]
          /\ relatorio_envios' = Append(relatorio_envios, r)
          /\ UNCHANGED <<fila, falhas>>
       \/ /\ info.status = "ignorado"
          /\ relatorio_envios' = Append(relatorio_envios, r)
          /\ UNCHANGED <<fila, falhas, toSend, sent>>
       \/ /\ info.status \notin {"sucesso", "ignorado"}
          /\ falhas' = [falhas EXCEPT ![item] = @ + 1]
          /\ fila' = Reenfileira(fila, item, t)
          /\ relatorio_envios' = RegistraFalha(relatorio_envios, r, t)
          /\ UNCHANGED <<toSend, sent>>
    /\ pcS' = "item"
    /\ item' = 0 /\ tentativa' = 0 /\ info' = InfoVazio
    /\ deleEnvio' = NaoPerguntado
    /\ storsChamada' = 0 /\ modoStor' = SemModo
    /\ UNCHANGED <<NS, ftpS, lote, tentativas_por_arquivo, remoto, chamadas,
                   max_tentativas, stors>>
    /\ UNCHANGED <<recvVars, auxVars>>

NextSend ==
    SendStart \/ SendLote \/ SendItem \/ EnviarInicio \/ EnviarTentativa
    \/ SendRegistro

SpecSend == InitSend /\ [][NextSend]_vars

\* ---------------------------------------------------------------------
\* The same run with the STORs counted and with the argument max_tentativas
\* of enviar_para_ftp (253) left open.
\* ---------------------------------------------------------------------
EntradasMaxTentativas == (0 - 1)..MAX_TENTATIVAS_ENVIO

InitEnvio ==
    /\ InitRecv("off", 0)
    /\ pcS = "start"
    /\ NS \in 0..MaxEnvioItems
    /\ ftpS = "none" /\ fila = <<>> /\ lote = <<>>
    /\ tentativas_por_arquivo = [i \in SendItems |-> 0]
    /\ relatorio_envios = <<>> /\ item = 0 /\ tentativa = 0
    /\ info = InfoVazio
    /\ toSend = [i \in SendItems |-> i <= NS]
    /\ sent = [i \in SendItems |-> FALSE]
    /\ remoto = [i \in SendItems |-> "none"]
    /\ falhas = [i \in SendItems |-> 0]
    /\ chamadas = 0
    /\ deleEnvio = NaoPerguntado
    /\ \E m \in EntradasMaxTentativas : InitContagem(m)
    /\ InitAuxIdle

EnviarTentativaContada == TentativaDeEnvio(TRUE)

NextEnvio ==
    SendStart \/ SendLote \/ SendItem \/ EnviarInicio
    \/ EnviarTentativaContada \/ SendRegistro

SpecEnvio == InitEnvio /\ [][NextEnvio]_vars

\* The program is sequential and never waits on anything but the network:
\* a step that can be taken is taken.
SpecSendFair == SpecSend /\ WF_vars(NextSend)

\* =====================================================================
\* Local folders (receive.py download root, send.py to-send and sent roots)
\* =====================================================================
\* A folder maps the paths name, name_1, ..., name_MaxSufixo of one base
\* name (path 0 is the plain name) to "livre" (no file), "antigo" (a file
\* that was there before the run) or "novo" (a file written by the run).

\* The while loop of receive.py 331-333 and send.py 554-556: the first
\* candidate, starting at n, for which os.path.exists is false.
RECURSIVE PrimeiroLivre(_, _)
PrimeiroLivre(pasta, n) ==
    IF n > MaxSufixo THEN n
    ELSE IF pasta[n] = "livre" THEN n
    ELSE PrimeiroLivre(pasta, n + 1)

\* receive.py 327-333: the local path of a fetched item.
caminho_local(pasta) == PrimeiroLivre(pasta, 0)

\* send.py 540-557.
gerar_destino_sem_conflito(pasta) == PrimeiroLivre(pasta, 0)

\* A write onto path c of a folder replaces whatever file was there.
Escreve(nomePasta, pasta, c) ==
    IF pasta[c] # "livre" THEN {<<nomePasta, c>>} ELSE {}

InitLocal ==
    /\ InitRecv("off", 0)
    /\ InitSendIdle
    /\ pastaLocalDestino \in [Caminhos -> {"livre", "antigo"}]
    /\ pastaToSend \in [Caminhos -> {"livre", "antigo"}]
    /\ pastaSend \in [Caminhos -> {"livre", "antigo"}]
    /\ sobrescritos = {}
    /\ opsLocais = 0
    /\ InitSess("off")
    /\ InitProv("off", 0, 0, FALSE)

\* receive.py 327-333 and 368-369: an item with the base name is fetched
\* into the download root (open(caminho_local, "wb")).
Busca ==
    /\ opsLocais < MaxOps
    /\ LET c == caminho_local(pastaLocalDestino) IN
       /\ c <= MaxSufixo
       /\ sobrescritos' = sobrescritos \cup Escreve("download", pastaLocalDestino, c)
       /\ pastaLocalDestino' = [pastaLocalDestino EXCEPT ![c] = "novo"]
    /\ opsLocais' = opsLocais + 1
    /\ UNCHANGED <<pastaToSend, pastaSend>>
    /\ UNCHANGED <<recvVars, sendVars, sessVars, provVars>>

\* send.py 560-584 mover_xmls_para_pasta_base: an extracted XML with the
\* base name is moved into the to-send root.
MoverXml ==
    /\ opsLocais < MaxOps
    /\ LET c == gerar_destino_sem_conflito(pastaToSend) IN
       /\ c <= MaxSufixo
       /\ sobrescritos' = sobrescritos \cup Escreve("to_send", pastaToSend, c)
       /\ pastaToSend' = [pastaToSend EXCEPT ![c] = "novo"]
    /\ opsLocais' = opsLocais + 1
    /\ UNCHANGED <<pastaLocalDestino, pastaSend>>
    /\ UNCHANGED <<recvVars, sendVars, sessVars, provVars>>

\* send.py 519-537 mover_para_enviados: shutil.move of an uploaded file to
\* the same relative path under the sent root.
MoverParaEnviados ==
    /\ opsLocais < MaxOps
    /\ \E c \in Caminhos :
         /\ pastaToSend[c] # "livre"
         /\ sobrescritos' = sobrescritos \cup Escreve("send", pastaSend, c)
         /\ pastaSend' = [pastaSend EXCEPT ![c] = pastaToSend[c]]
         /\ pastaToSend' = [pastaToSend EXCEPT ![c] = "livre"]
    /\ opsLocais' = opsLocais + 1
    /\ UNCHANGED pastaLocalDestino
    /\ UNCHANGED <<recvVars, sendVars, sessVars, provVars>>

NextLocal == Busca \/ MoverXml \/ MoverParaEnviados

SpecLocal == InitLocal /\ [][NextLocal]_vars

\* =====================================================================
\* Sessions of receive.py: conectar_ftp, garantir_conexao and their callers
\* =====================================================================
ModosTrocados ==
    << <<"P", FALSE>>, <<"P", TRUE>>, <<"C", TRUE>>, <<"C", FALSE>> >>

\* conectar_ftp 103-108: <<protection, passive>> in the order of the list.
modos ==
    << <<"P", TRUE>>, <<"P", FALSE>>, <<"C", TRUE>>, <<"C", FALSE>> >>

\* Exceptions garantir_conexao tells apart (141): ConnectionResetError and
\* EOFError, or anything else.
ExcTipos == {"reset", "outra"}

\* ftp.close(): the socket is closed on this side.
Fecha(h) ==
    /\ abertas' = abertas \ {h}
    /\ vivas' = vivas \ {h}

\* A command on the handle is answered.
Responde(h) == h \in abertas /\ h \in vivas

\* Handles some variable of the program still refers to.
Referenciadas == {ftpM, ftpG, ftpC, cRet, gRet} \ {0}

InitSessao ==
    /\ InitRecv("off", 0)
    /\ InitSendIdle
    /\ InitLocalIdle
    /\ InitSess("main_connect")
    /\ InitProv("off", 0, 0, FALSE)

\* The process ends: the operating system closes what is still open.
\* FTPSClient._prot_level (64-70) of the handle main holds, as it was when
\* the latest RETR or STOR was issued on that handle; "none" while no
\* transfer was issued on it.
NivelSegue ==
    prot_level' = IF ftpM' = ftpM THEN prot_level ELSE "none"

FimProcesso ==
    /\ pcX' = "fimX"
    /\ abertas' = {} /\ vivas' = {}

ChamaConectar(site) ==
    /\ pcX' = "c_abrir"
    /\ retC' = site
    /\ tentados' = <<>>
    /\ cFim' = "none" /\ cRet' = 0

\* main 462.
MainConectar ==
    /\ pcX = "main_connect"
    /\ ChamaConectar("main")
    /\ UNCHANGED <<ftpM, ftpG, ftpC, abertas, vivas, criadas, modo, retG, exc,
                   gProbe, gFim, gRet>>
    /\ UNCHANGED prot_level
    /\ UNCHANGED <<recvVars, sendVars, localVars, provVars>>

\* conectar_ftp 96-101: the transport is opened, then AUTH, login and
\* PBSZ 0, none of them inside a try.  connect() may raise before a socket
\* exists; a later command may raise with the socket open.
ConectarAbrir ==
    /\ pcX = "c_abrir"
    /\ \/ \E e \in ExcTipos :
            /\ cFim' = "excecao" /\ exc' = e
            /\ pcX' = "c_fim"
            /\ UNCHANGED <<ftpC, abertas, vivas, criadas>>
       \/ /\ criadas < MaxConex
          /\ criadas' = criadas + 1
          /\ abertas' = abertas \cup {criadas + 1}
          /\ \/ \E e \in ExcTipos :
                  /\ cFim' = "excecao" /\ exc' = e
                  /\ vivas' = IF e = "reset" THEN vivas
                              ELSE vivas \cup {criadas + 1}
                  /\ pcX' = "c_fim"
                  /\ UNCHANGED ftpC
             \/ /\ ftpC' = criadas + 1
                /\ vivas' = vivas \cup {criadas + 1}
                /\ pcX' = "c_modo"
                /\ UNCHANGED <<cFim, exc>>
    /\ UNCHANGED <<ftpM, ftpG, modo, tentados, retC, retG, cRet, gProbe, gFim,
                   gRet>>
    /\ UNCHANGED prot_level
    /\ UNCHANGED <<recvVars, sendVars, localVars, provVars>>

\* conectar_ftp 109-122: one turn of the loop over modos.
\* configurar_transferencia (87-92) raises before anything is recorded when
\* PROT is refused; otherwise the handle carries the combination and
\* cwd(PASTA_REMOTA_ORIGEM) decides.  A success returns the handle; after
\* the last combination None is returned.
ConectarModo ==
    /\ pcX = "c_modo"
    /\ LET k == Len(tentados) + 1 IN
       \E r \in (IF Responde(ftpC) THEN {"ok"} ELSE {}) \cup {"prot_falha", "cwd_falha"} :
          /\ tentados' = Append(tentados, [modo |-> modos[k], ok |-> (r = "ok")])
          /\ modo' = IF r = "prot_falha" THEN modo
                     ELSE [modo EXCEPT ![ftpC] = modos[k]]
          /\ vivas' \in {vivas} \cup (IF r = "ok" THEN {} ELSE {vivas \ {ftpC}})
          /\ IF r = "ok"
                THEN /\ cFim' = "sessao" /\ cRet' = ftpC /\ ftpC' = 0
                     /\ pcX' = "c_fim"
                ELSE IF k = Len(modos)
                THEN /\ cFim' = "none" /\ cRet' = 0 /\ ftpC' = 0
                     /\ pcX' = "c_fim"
                ELSE UNCHANGED <<cFim, cRet, ftpC, pcX>>
    /\ UNCHANGED <<ftpM, ftpG, abertas, criadas, retC, retG, exc, gProbe, gFim,
                   gRet>>
    /\ UNCHANGED prot_level
    /\ UNCHANGED <<recvVars, sendVars, localVars, provVars>>

\* garantir_conexao 129-140: no handle -> connect; NOOP answered -> the
\* same handle; NOOP failed -> close the handle, then connect.
GarantirProbe ==
    /\ pcX = "g_probe"
    /\ IF ftpG = 0
          THEN /\ gProbe' = "sem"
               /\ ChamaConectar("garantir")
               /\ UNCHANGED <<abertas, vivas, gFim, gRet>>
          ELSE IF Responde(ftpG)
          THEN /\ gProbe' = "ok"
               /\ gFim' = "retornou" /\ gRet' = ftpG
               /\ pcX' = "g_fim"
               /\ UNCHANGED <<abertas, vivas, retC, tentados, cFim, cRet>>
          ELSE /\ gProbe' = "falhou"
               /\ Fecha(ftpG)
               /\ ChamaConectar("garantir")
               /\ UNCHANGED <<gFim, gRet>>
    /\ UNCHANGED <<ftpM, ftpG, ftpC, criadas, modo, retG, exc>>
    /\ UNCHANGED prot_level
    /\ UNCHANGED <<recvVars, sendVars, localVars, provVars>>

\* The value or the exception of conectar_ftp reaches its call site:
\* main 462-466; tentar_processar_arquivo 348-351 / 359-362;
\* garantir_conexao 131 / 140 (a ConnectionResetError or EOFError is caught
\* at 141: close again and connect once more) and 147.
RetornoConectar ==
    /\ pcX = "c_fim"
    /\ \/ /\ retC \in {"main", "tentar"}
          /\ IF cFim = "sessao"
                THEN /\ ftpM' = cRet /\ pcX' = "laco"
                     /\ UNCHANGED <<abertas, vivas>>
                ELSE /\ ftpM' = 0 /\ FimProcesso
          /\ retC' = "none" /\ tentados' = <<>> /\ cFim' = "none"
          /\ UNCHANGED <<ftpG, gProbe, gFim, gRet>>
       \/ /\ retC \in {"garantir", "garantir_outer"}
          /\ cFim # "excecao"
          /\ gFim' = "retornou" /\ gRet' = cRet
          /\ pcX' = "g_fim"
          /\ retC' = "none" /\ tentados' = <<>> /\ cFim' = "none"
          /\ UNCHANGED <<ftpM, ftpG, abertas, vivas, gProbe>>
       \/ /\ retC = "garantir" /\ cFim = "excecao" /\ exc = "reset"
          /\ IF ftpG # 0 THEN Fecha(ftpG) ELSE UNCHANGED <<abertas, vivas>>
          /\ pcX' = "c_abrir"
          /\ retC' = "garantir_outer" /\ tentados' = <<>> /\ cFim' = "none"
          /\ UNCHANGED <<ftpM, ftpG, gProbe, gFim, gRet>>
       \/ /\ \/ retC = "garantir" /\ cFim = "excecao" /\ exc # "reset"
             \/ retC = "garantir_outer" /\ cFim = "excecao"
          /\ gFim' = "excecao" /\ gRet' = 0
          /\ pcX' = "g_fim"
          /\ retC' = "none" /\ tentados' = <<>> /\ cFim' = "none"
          /\ UNCHANGED <<ftpM, ftpG, abertas, vivas, gProbe>>
    /\ cRet' = 0 /\ exc' = "none"
    /\ UNCHANGED <<ftpC, criadas, modo, retG>>
    /\ NivelSegue
    /\ UNCHANGED <<recvVars, sendVars, localVars, provVars>>

\* The value or the exception of garantir_conexao reaches its call site.
\* main 494-497 / 509: the handle is assigned; None or an exception ends
\* the run.  assegurar_diretorio_remoto 178 / 205: the handle is assigned to
\* the provisioner's local ftp; the provisioner then returns it (main 478,
\* tentar 419) or raises (RuntimeError at 208, or the exception passing
\* through), and its caller keeps the handle it had.
RetornoGarantir ==
    /\ pcX = "g_fim"
    /\ \/ /\ retG = "main"
          /\ IF gFim = "retornou" /\ gRet # 0
                THEN /\ ftpM' = gRet /\ pcX' = "laco"
                     /\ UNCHANGED <<abertas, vivas>>
                ELSE /\ ftpM' = 0 /\ FimProcesso
       \/ /\ retG = "assegurar"
          /\ gFim = "retornou" /\ gRet # 0
          /\ ftpM' = gRet /\ pcX' = "laco"
          /\ UNCHANGED <<abertas, vivas>>
       \/ /\ retG = "assegurar"
          /\ UNCHANGED ftpM
          /\ \/ pcX' = "laco" /\ UNCHANGED <<abertas, vivas>>
             \/ FimProcesso
    /\ ftpG' = 0 /\ gRet' = 0
    /\ retG' = "none" /\ gProbe' = "none" /\ gFim' = "none"
    /\ UNCHANGED <<ftpC, criadas, modo, tentados, retC, cFim, cRet, exc>>
    /\ NivelSegue
    /\ UNCHANGED <<recvVars, sendVars, localVars, provVars>>

ChamaGarantir(site) ==
    /\ pcX' = "g_probe"
    /\ ftpG' = ftpM
    /\ retG' = site
    /\ gProbe' = "none" /\ gFim' = "none" /\ gRet' = 0

\* main 494 / 509: ftp = garantir_conexao(ftp).
ChamadorGarantir ==
    /\ pcX = "laco"
    /\ ChamaGarantir("main")
    /\ UNCHANGED <<ftpM, ftpC, abertas, vivas, criadas, modo, tentados, retC,
                   cFim, cRet, exc>>
    /\ UNCHANGED prot_level
    /\ UNCHANGED <<recvVars, sendVars, localVars, provVars>>

\* assegurar_diretorio_remoto 175-178 / 204-205, called at main 478 or
\* tentar_processar_arquivo 419: pwd or mkd failed on the connection.
ChamadorAssegurar ==
    /\ pcX = "laco"
    /\ ftpM # 0 /\ ~Responde(ftpM)
    /\ ChamaGarantir("assegurar")
    /\ UNCHANGED <<ftpM, ftpC, abertas, vivas, criadas, modo, tentados, retC,
                   cFim, cRet, exc>>
    /\ UNCHANGED prot_level
    /\ UNCHANGED <<recvVars, sendVars, localVars, provVars>>

\* tentar_processar_arquivo 340-348 (NOOP failed) and 354-359 (periodic):
\* ftp.quit(), then conectar_ftp().  ftplib's quit closes the socket only
\* after QUIT was answered.
ChamadorKeepalive ==
    /\ pcX = "laco"
    /\ ftpM # 0
    /\ IF Responde(ftpM) THEN Fecha(ftpM) ELSE UNCHANGED <<abertas, vivas>>
    /\ ChamaConectar("tentar")
    /\ UNCHANGED <<ftpM, ftpG, ftpC, criadas, modo, retG, exc, gProbe, gFim,
                   gRet>>
    /\ UNCHANGED prot_level
    /\ UNCHANGED <<recvVars, sendVars, localVars, provVars>>

\* The server or the network drops a control connection.
ServidorDerruba ==
    /\ pcX = "laco"
    /\ \E h \in vivas : vivas' = vivas \ {h}
    /\ UNCHANGED <<pcX, ftpM, ftpG, ftpC, abertas, criadas, modo, tentados,
                   retC, retG, cFim, cRet, exc, gProbe, gFim, gRet>>
    /\ UNCHANGED prot_level
    /\ UNCHANGED <<recvVars, sendVars, localVars, provVars>>

\* The Python runtime may finalise a socket no variable refers to.
Coletor ==
    /\ pcX \notin {"off", "fimX"}
    /\ \E h \in abertas \ Referenciadas : Fecha(h)
    /\ UNCHANGED <<pcX, ftpM, ftpG, ftpC, criadas, modo, tentados, retC, retG,
                   cFim, cRet, exc, gProbe, gFim, gRet>>
    /\ UNCHANGED prot_level
    /\ UNCHANGED <<recvVars, sendVars, localVars, provVars>>

\* main 513-521: the batch is over; QUIT in the finally block.
MainFim ==
    /\ pcX = "laco"
    /\ FimProcesso
    /\ UNCHANGED <<ftpM, ftpG, ftpC, criadas, modo, tentados, retC, retG,
                   cFim, cRet, exc, gProbe, gFim, gRet>>
    /\ UNCHANGED prot_level
    /\ UNCHANGED <<recvVars, sendVars, localVars, provVars>>

\* _force_type_i_and_tls 152-161: prot_p() is always sent, an error reply
\* is swallowed and leaves the level as it was.
ProtReafirmada(atual, aceito) == IF aceito THEN "P" ELSE atual

\* tentar_processar_arquivo 366-369 / 421-423: _force_type_i_and_tls and then
\* RETR or STOR on the handle main holds.
Transfere ==
    /\ pcX = "laco"
    /\ ftpM # 0 /\ Responde(ftpM)
    /\ \E aceito \in BOOLEAN :
         prot_level' = ProtReafirmada(IF prot_level = "none" THEN modo[ftpM][1]
                                                            ELSE prot_level,
                                     aceito)
    /\ UNCHANGED <<pcX, ftpM, ftpG, ftpC, abertas, vivas, criadas, modo,
                   tentados, retC, retG, cFim, cRet, exc, gProbe, gFim, gRet>>
    /\ UNCHANGED <<recvVars, sendVars, localVars, provVars>>

NextSessao ==
    \/ MainConectar \/ ConectarAbrir \/ ConectarModo \/ GarantirProbe
    \/ RetornoConectar \/ RetornoGarantir
    \/ ChamadorGarantir \/ ChamadorAssegurar \/ ChamadorKeepalive
    \/ ServidorDerruba \/ Coletor \/ MainFim \/ Transfere

SpecSessao == InitSessao /\ [][NextSessao]_vars

\* =====================================================================
\* assegurar_diretorio_remoto (receive.py 163-215)
\* =====================================================================
\* caminho_abs has NSeg segments; the server holds the first noServidor of
\* them.  The provisioner is called twice in succession with the same path.

InitProvisao ==
    /\ InitRecv("off", 0)
    /\ InitSendIdle
    /\ InitLocalIdle
    /\ InitSess("off")
    /\ \E n \in 0..MaxSeg : \E e \in 0..n : \E v \in BOOLEAN :
          InitProv("a_inicio", n, e, v)

DeveCriarSempre(cwdOk) == TRUE

\* 185-192: MKD is tried only when cwd(atual) raised.
DeveCriar(cwdOk) == ~cwdOk

\* The call ends: 169-170 / 215 return ftp, 208 RuntimeError naming the
\* segment, or another exception passing through.
TerminaProv(f) ==
    /\ fimA' = f
    /\ segFalha' = IF f = "provisao" THEN seg ELSE 0
    /\ pcA' = "a_fim"

\* 183-184, 210-215: next segment, or cwd(cur) and return.
AvancaSegmento ==
    IF seg < NSeg
       THEN /\ seg' = seg + 1 /\ tenta' = 1
            /\ pcA' = "a_cwd"
            /\ UNCHANGED <<fimA, segFalha>>
       ELSE /\ TerminaProv("ok")
            /\ UNCHANGED <<seg, tenta>>

\* 186, 206-208: sleep, next turn of the inner loop; after the last turn
\* the RuntimeError.
ProximaTenta ==
    IF tenta < TENTATIVAS_PROV
       THEN /\ tenta' = tenta + 1
            /\ pcA' = "a_cwd"
            /\ UNCHANGED <<seg, fimA, segFalha>>
       ELSE /\ TerminaProv("provisao")
            /\ UNCHANGED <<seg, tenta>>

\* garantir_conexao as seen by the provisioner: the same handle when NOOP
\* is answered, a new session, None, or an exception of conectar_ftp.
GarantirProvOutcomes(noopOk) ==
    (IF noopOk THEN {"same"} ELSE {}) \cup {"nova", "none", "raise"}

\* The handle after garantir_conexao returned with outcome g.
AposGarantir(g) ==
    /\ ftpA' = IF g = "none" THEN "none" ELSE "open"
    /\ vivaA' = (g \in {"same", "nova"})
    /\ reconectou' = (reconectou \/ g # "same")

\* 169-170: nothing to do for "" or "/"; else 172-178.
AssegurarInicio ==
    /\ pcA = "a_inicio"
    /\ IF NSeg = 0
          THEN TerminaProv("ok")
          ELSE pcA' = "a_pwd" /\ UNCHANGED <<fimA, segFalha>>
    /\ UNCHANGED <<ftpA, vivaA, reconectou, NSeg, noServidor, seg, tenta,
                   mkdEmitido, chamada, saudavel, fim1, noServidor1, mkd1>>
    /\ UNCHANGED <<recvVars, sendVars, localVars, sessVars>>

\* 175-179: pwd; when it raises, garantir_conexao and cur = "/".
AssegurarPwd ==
    /\ pcA = "a_pwd"
    /\ \/ /\ ftpA = "open" /\ vivaA
          /\ seg' = 1 /\ tenta' = 1 /\ pcA' = "a_cwd"
          /\ UNCHANGED <<ftpA, vivaA, reconectou, fimA, segFalha, saudavel>>
       \/ \E morreu \in BOOLEAN :
          \E g \in GarantirProvOutcomes(ftpA = "open" /\ vivaA /\ ~morreu) :
             /\ saudavel' = FALSE
             /\ IF g = "raise"
                   THEN /\ TerminaProv("outro")
                        /\ vivaA' = FALSE /\ reconectou' = TRUE
                        /\ UNCHANGED <<ftpA, seg, tenta>>
                   ELSE /\ AposGarantir(g)
                        /\ seg' = 1 /\ tenta' = 1 /\ pcA' = "a_cwd"
                        /\ UNCHANGED <<fimA, segFalha>>
    /\ UNCHANGED <<NSeg, noServidor, mkdEmitido, chamada, fim1, noServidor1, mkd1>>
    /\ UNCHANGED <<recvVars, sendVars, localVars, sessVars>>

\* 185-190: cwd(atual); entered -> the segment exists.  On None the call
\* raises AttributeError, caught like any other exception.
AssegurarCwd ==
    /\ pcA = "a_cwd"
    /\ \/ \* answered according to the tree
          /\ ftpA = "open" /\ vivaA
          /\ IF DeveCriar(seg <= noServidor)
                THEN pcA' = "a_mkd" /\ UNCHANGED <<seg, tenta, fimA, segFalha>>
                ELSE AvancaSegmento
          /\ UNCHANGED <<vivaA, saudavel>>
       \/ \* no session, or the command failed
          /\ vivaA' \in {vivaA, FALSE}
          /\ saudavel' = FALSE
          /\ pcA' = "a_mkd"
          /\ UNCHANGED <<seg, tenta, fimA, segFalha>>
    /\ UNCHANGED <<ftpA, reconectou, NSeg, noServidor, mkdEmitido, chamada, fim1,
                   noServidor1, mkd1>>
    /\ UNCHANGED <<recvVars, sendVars, localVars, sessVars>>

\* 192-205: mkd(atual).  Created -> done with the segment; error_perm ->
\* cwd decides; ConnectionResetError, EOFError or SSLError ->
\* garantir_conexao and the next turn; anything else is not caught, and
\* None.mkd raises AttributeError.
AssegurarMkd ==
    /\ pcA = "a_mkd"
    /\ IF ftpA = "none"
          THEN /\ TerminaProv("outro")
               /\ UNCHANGED <<ftpA, vivaA, reconectou, noServidor, seg, tenta,
                              mkdEmitido, saudavel>>
          ELSE
          /\ mkdEmitido' = TRUE
          /\ \/ \* created
                /\ vivaA /\ seg = noServidor + 1
                /\ noServidor' = seg
                /\ AvancaSegmento
                /\ UNCHANGED <<ftpA, vivaA, reconectou, saudavel>>
             \/ \* error_perm: the directory exists
                /\ vivaA /\ seg <= noServidor
                /\ pcA' = "a_cwd2"
                /\ UNCHANGED <<ftpA, vivaA, reconectou, noServidor, seg, tenta,
                               fimA, segFalha, saudavel>>
             \/ \* error_perm: creation refused
                /\ vivaA /\ seg = noServidor + 1
                /\ saudavel' = FALSE
                /\ pcA' = "a_cwd2"
                /\ UNCHANGED <<ftpA, vivaA, reconectou, noServidor, seg, tenta,
                               fimA, segFalha>>
             \/ \* error_perm: another client created the directory meanwhile
                /\ vivaA /\ seg = noServidor + 1
                /\ noServidor' = seg
                /\ saudavel' = FALSE
                /\ pcA' = "a_cwd2"
                /\ UNCHANGED <<ftpA, vivaA, reconectou, seg, tenta, fimA,
                               segFalha>>
             \/ \* reset, EOF or TLS error, before or after the server acted
                \E g \in GarantirProvOutcomes(FALSE) :
                   /\ noServidor' \in {noServidor} \cup
                         (IF vivaA /\ seg = noServidor + 1 THEN {seg} ELSE {})
                   /\ saudavel' = FALSE
                   /\ IF g = "raise"
                         THEN /\ TerminaProv("outro")
                              /\ vivaA' = FALSE /\ reconectou' = TRUE
                              /\ UNCHANGED <<ftpA, seg, tenta>>
                         ELSE /\ AposGarantir(g)
                              /\ ProximaTenta
             \/ \* any other exception (error_temp, timeout, broken pipe)
                /\ vivaA' \in {vivaA, FALSE}
                /\ saudavel' = FALSE
                /\ TerminaProv("outro")
                /\ UNCHANGED <<ftpA, reconectou, noServidor, seg, tenta>>
    /\ UNCHANGED <<NSeg, chamada, fim1, noServidor1, mkd1>>
    /\ UNCHANGED <<recvVars, sendVars, localVars, sessVars>>

\* 196-203: after error_perm, cwd(atual) tells "already exists" from
\* "refused"; 206 sleep.
AposCwd2Gasta(entrou) == ProximaTenta

\* 198-203: entered -> ok = True and break (the segment is done); else
\* ok = False and the turn ends at the sleep of 206.
AposCwd2(entrou) == IF entrou THEN AvancaSegmento ELSE ProximaTenta

AssegurarCwd2 ==
    /\ pcA = "a_cwd2"
    /\ \/ /\ vivaA
          /\ AposCwd2(seg <= noServidor)
          /\ UNCHANGED <<vivaA, saudavel>>
       \/ /\ vivaA' = FALSE
          /\ saudavel' = FALSE
          /\ AposCwd2(FALSE)
    /\ UNCHANGED <<ftpA, reconectou, NSeg, noServidor, mkdEmitido, chamada, fim1,
                   noServidor1, mkd1>>
    /\ UNCHANGED <<recvVars, sendVars, localVars, sessVars>>

\* The first call is over: its caller keeps the returned handle (main 478,
\* tentar 419), or after an exception the handle it had, and calls again
\* with the same path.
SegundaChamada ==
    /\ pcA = "a_fim" /\ chamada = 1
    /\ chamada' = 2
    /\ fim1' = fimA /\ noServidor1' = noServidor /\ mkd1' = mkdEmitido
    /\ IF fimA = "ok"
          THEN UNCHANGED <<ftpA, vivaA>>
          ELSE /\ ftpA' = "open"
               /\ vivaA' = (vivaA /\ ~reconectou)
    /\ reconectou' = FALSE
    /\ pcA' = "a_inicio"
    /\ seg' = 0 /\ tenta' = 0 /\ mkdEmitido' = FALSE
    /\ fimA' = "none" /\ segFalha' = 0
    /\ UNCHANGED <<NSeg, noServidor, saudavel>>
    /\ UNCHANGED <<recvVars, sendVars, localVars, sessVars>>

NextProvisao ==
    \/ AssegurarInicio \/ AssegurarPwd \/ AssegurarCwd \/ AssegurarMkd
    \/ AssegurarCwd2 \/ SegundaChamada

SpecProvisao == InitProvisao /\ [][NextProvisao]_vars

\* =====================================================================
\* Properties of the strict run (receive.py)
\* =====================================================================

\* C1 - No-loss: until an item is reported delivered, the remote origin or
\* the remote destination holds its complete bytes.
C1_NoLoss ==
    \A i \in 1..N :
        result[i] # "ok" => (origin[i] = "full" \/ dest[i] = "full")

\* C2 - Delete-after-verify: a DELE of the origin is issued only in an
\* attempt whose STOR completed and whose following size query on the
\* destination returned the cached local size.
C2_DeleteAfterVerify ==
    (deleIssued \/ pc = "dele") =>
        /\ storDone
        /\ storVerified
        /\ tam_local_cache # None
        /\ lastSize = tam_local_cache

C2_Witness == deleIssued /\ idx >= 1 /\ result[idx] = "ok" /\ origin[idx] = "none"

Entregue(i) == result[i] = "ok" /\ dest[i] = "full" /\ origin[i] = "none"
Intocado(i) == origin[i] = "full" /\ dest[i] = "none"

\* C3 - Two terminal states: when the strict run ends with exit 0 or 2,
\* every candidate is either delivered (destination complete, origin gone)
\* or untouched (origin complete, nothing at the destination).
C3_TwoTerminalStates ==
    (pc = "done" /\ exitCode \in {Some(0), Some(2)}) =>
        \A i \in 1..N : Entregue(i) \/ Intocado(i)

\* C4 - Size-match: an item is returned as success only when the last size
\* query on its destination in that attempt answered the cached local size.
C4_SizeMatch ==
    (idx >= 1 /\ result[idx] = "ok") =>
        /\ tam_local_cache # None
        /\ lastSize # None
        /\ lastSize = tam_local_cache

C4_Witness ==
    /\ idx >= 1 /\ result[idx] = "ok" /\ tent >= 2
    /\ lastSize = Some(ItemSize)

\* C5 - Strict-abort: items are taken in list order; every item before a
\* touched one was delivered; once an item has failed, the later items were
\* never touched and the run has ended with status 2.
C5_StrictAbort ==
    /\ \A i \in 1..N : touched[i] => \A j \in 1..(i - 1) : result[j] = "ok"
    /\ \A k \in 1..N : result[k] = "fail" =>
          /\ pc = "done" /\ exitCode = Some(2)
          /\ \A j \in (k + 1)..N :
                /\ ~touched[j] /\ result[j] = "none"
                /\ origin[j] = "full" /\ dest[j] = "none" /\ localf[j] = "none"

C5_Witness ==
    /\ N >= 3 /\ result[1] = "ok" /\ result[2] = "fail" /\ tent > MAX_TENTATIVAS_POR_ARQUIVO
    /\ ~touched[3] /\ pc = "done"

\* C6 - Strict result contract: exit 0 through the all-delivered path only
\* when every candidate was delivered; once the batch has started, every
\* other end of the run (item failure, lost session) is exit code 2, which
\* differs from the exit code of the empty list.
C6_StrictResultContract ==
    /\ exitPath = "todos" => (exitCode = Some(0) /\ \A i \in 1..N : result[i] = "ok")
    /\ exitPath = "vazio" => (exitCode = Some(0) /\ N = 0)
    /\ (pc = "done" /\ idx >= 1 /\ exitPath # "todos") => exitCode = Some(2)

\* C7 - Fetch-once: no RETR is issued for an item once its size is cached;
\* the cached size and the local file stay those of the one download.
C7_FetchOnce ==
    /\ ~retrComCache
    /\ tam_local_cache # None =>
          (idx >= 1 /\ tam_local_cache = Some(ItemSize) /\ localf[idx] = "full")

C7_Witness == tam_local_cache # None /\ tent >= 3 /\ pc = "rename"

\* =====================================================================
\* Properties of the requeue run (send.py)
\* =====================================================================
Registros(i) ==
    {k \in 1..Len(relatorio_envios) : relatorio_envios[k].arquivo = i}

Registrado(i) == Registros(i) # {}

NaSeq(i, q) == \E k \in 1..Len(q) : q[k] = i

\* The item still waits in the queue, in the pass, or is being uploaded.
Pendente(i) == NaSeq(i, fila) \/ NaSeq(i, lote) \/ item = i

\* C8 - Requeue-bounded-retry: an item whose upload call failed C times
\* (C below the cap) and then succeeded is recorded as success with
\* C + 1 attempts, whatever happened to the other items; every queued item
\* is eventually recorded.
C8_RequeueBoundedRetry ==
    /\ [](\A k \in 1..Len(relatorio_envios) :
            LET r == relatorio_envios[k] IN
            r.status = "sucesso" =>
                /\ r.tentativas = falhas[r.arquivo] + 1
                /\ r.tentativas <= MAX_REPROCESSOS)
    /\ [](pcS = "fim" =>
            \A i \in 1..NS :
                /\ Registrado(i)
                /\ falhas[i] < MAX_REPROCESSOS =>
                      \A k \in Registros(i) :
                          /\ relatorio_envios[k].status \in {"sucesso", "ignorado"}
                          /\ relatorio_envios[k].tentativas = falhas[i] + 1)
    /\ \A i \in SendItems : Pendente(i) ~> Registrado(i)

C8_Witness ==
    /\ pcS = "fim" /\ NS >= 2
    /\ \E k \in 1..Len(relatorio_envios) :
          /\ relatorio_envios[k].status = "sucesso"
          /\ relatorio_envios[k].tentativas = MAX_REPROCESSOS
          /\ falhas[relatorio_envios[k].arquivo] = MAX_REPROCESSOS - 1
    /\ \E k \in 1..Len(relatorio_envios) :
          /\ relatorio_envios[k].status = "sucesso"
          /\ relatorio_envios[k].tentativas = 1

\* C9 - Requeue cap: a failed record is emitted only with the counter at
\* MAX_REPROCESSOS; no counter exceeds it; an item that failed below the
\* cap is back in the queue (or in the pass taken from it) and has no record.
C9_RequeueCap ==
    /\ \A i \in SendItems : tentativas_por_arquivo[i] <= MAX_REPROCESSOS
    /\ \A k \in 1..Len(relatorio_envios) :
          LET r == relatorio_envios[k] IN
          r.status = "falha" =>
              /\ r.tentativas = MAX_REPROCESSOS
              /\ tentativas_por_arquivo[r.arquivo] = MAX_REPROCESSOS
              /\ falhas[r.arquivo] = MAX_REPROCESSOS
    /\ \A i \in 1..NS :
          (falhas[i] >= 1 /\ falhas[i] < MAX_REPROCESSOS
             /\ falhas[i] = tentativas_por_arquivo[i]) =>
              ((NaSeq(i, fila) \/ NaSeq(i, lote)) /\ ~Registrado(i))

C9_Witness ==
    /\ \E k \in 1..Len(relatorio_envios) : relatorio_envios[k].status = "falha"
    /\ \E i \in 1..NS :
          /\ falhas[i] >= 1 /\ falhas[i] < MAX_REPROCESSOS
          /\ (NaSeq(i, fila) \/ NaSeq(i, lote)) /\ ~Registrado(i)

\* C10 - Requeue termination: the loop drains the queue, after at most
\* NS x MAX_REPROCESSOS item attempts, whatever the upload failures.
C10_RequeueTermination ==
    /\ [](chamadas <= NS * MAX_REPROCESSOS)
    /\ (pcS = "loop") ~> (pcS = "fim" /\ fila = <<>> /\ lote = <<>>)

C10_Witness ==
    /\ pcS = "fim" /\ NS >= 2 /\ chamadas = NS * MAX_REPROCESSOS
    /\ \A i \in 1..NS : falhas[i] = MAX_REPROCESSOS

\* C11 - One record per item: in every state of the requeue run an item has
\* at most one record, its status is sucesso, falha or ignorado, and an item
\* with a record is neither queued nor being uploaded again; when the queue
\* has drained every candidate has exactly one record.
C11_OneRecordPerItem ==
    /\ \A k \in 1..Len(relatorio_envios) :
          /\ relatorio_envios[k].arquivo \in 1..NS
          /\ relatorio_envios[k].status \in {"sucesso", "falha", "ignorado"}
    /\ \A i \in 1..NS :
          /\ Cardinality(Registros(i)) <= 1
          /\ Registrado(i) => ~Pendente(i)
          /\ pcS = "fim" => Cardinality(Registros(i)) = 1

\* The queue drained after one item failed twice before its record and
\* another was recorded as failed.
C11_Witness ==
    /\ pcS = "fim" /\ NS >= 2
    /\ \E i, j \in 1..NS :
          /\ i # j
          /\ falhas[i] = 2
          /\ \E k \in Registros(i) : relatorio_envios[k].status = "sucesso"
          /\ \E k \in Registros(j) : relatorio_envios[k].status = "falha"

\* =====================================================================
\* Properties of the strict run (receive.py), continued
\* =====================================================================

\* The run ended by an exception raised inside tentar_processar_arquivo:
\* an attempt was under way (tent >= 1) and the item has no outcome.
CrashNoItem ==
    /\ pc = "done" /\ exitPath = "crash"
    /\ idx >= 1 /\ tent >= 1 /\ result[idx] = "none"

\* C17 - Never a crash: no failure while an item is processed under Strict
\* escapes tentar_processar_arquivo as an exception; each one becomes the
\* outcome of the item.
C17_NeverACrash == ~CrashNoItem

\* =====================================================================
\* Properties of the requeue run (send.py), continued
\* =====================================================================

\* C19 - Retire-after-confirm: a local file is in the sent root only if its
\* upload was recorded as sucesso with a remote size equal to the local size;
\* an item recorded as falha or ignorado was not moved, and a failed one is
\* still in the to-send root.
C19_RetireAfterConfirm ==
    \A i \in 1..NS :
       /\ sent[i] =>
             \E k \in Registros(i) :
                /\ relatorio_envios[k].status = "sucesso"
                /\ relatorio_envios[k].tamanho_remoto =
                       Some(relatorio_envios[k].tamanho_local)
       /\ \A k \in Registros(i) :
             /\ relatorio_envios[k].status \in {"falha", "ignorado"} => ~sent[i]
             /\ relatorio_envios[k].status = "falha" => toSend[i]

\* One file was moved after an earlier failed call, another one is recorded
\* as failed and still waits in the to-send root.
C19_Witness ==
    \E i, j \in 1..NS :
       /\ sent[i] /\ ~toSend[i] /\ falhas[i] >= 1
       /\ toSend[j] /\ ~sent[j]
       /\ \E k \in Registros(j) : relatorio_envios[k].status = "falha"

\* C20 (as stated) - Transfer Unit additive: the store operation
\* enviar_para_ftp never issues a delete of a remote file.
C20_StoreNeverDeletes == deleEnvio = NaoPerguntado

\* C20 (amended) - the store operation issues a DELE only for the file it
\* has just uploaded, in an attempt whose size check did not equal the local
\* size: never after a confirmed upload, never outside an upload call.
C20_DeleteOnlyUnconfirmed ==
    deleEnvio # NaoPerguntado =>
       /\ pcS \in {"envio", "registro"} /\ item \in 1..NS
       /\ deleEnvio # Some(info.tamanho_local)
       /\ deleEnvio = info.tamanho_remoto
       /\ info.status # "sucesso"

\* A truncated upload was detected and its remote file deleted.
C20_Witness ==
    /\ pcS = "envio" /\ item \in 1..NS
    /\ deleEnvio = Some(ItemSize - 1)
    /\ remoto[item] = "none"

\* =====================================================================
\* Properties of the local folders
\* =====================================================================

\* C18 - Local collision avoidance: no operation of either program replaces
\* a local file that existed before the operation: not a fetch into the
\* download root, not a move into the to-send root, not the move of an
\* uploaded file into the sent root.
C18_NoLocalOverwrite == sobrescritos = {}

\* The part of C18 that the suffix search does guarantee: fetches and moves
\* into the to-send root never replace a file.
SufixoEvitaColisao == \A x \in sobrescritos : x[1] = "send"

\* =====================================================================
\* Properties of the sessions (receive.py)
\* =====================================================================

\* What garantir_conexao hands back when it returns: the handle it was given
\* if the probe was answered; otherwise None or a handle opened by this very
\* call, open and configured, the probed handle having been closed.
GarantirRetornoCorreto ==
    /\ gProbe = "ok" => gRet = ftpG
    /\ gProbe \in {"falhou", "sem"} =>
          \/ gRet = 0
          \/ /\ gRet # ftpG /\ gRet = criadas
             /\ gRet \in abertas /\ modo[gRet] # SemModo
    /\ gProbe = "falhou" => gRet # ftpG /\ ftpG \notin abertas

\* C12 - Session ensure: garantir_conexao always ends by returning: the
\* same handle when the NOOP probe succeeded; the result of a fresh connect
\* (a configured session, or None when connecting fails) when the probe
\* failed or there was no handle; never a handle whose probe failed.
C12_SessionEnsure ==
    pcX = "g_fim" => gFim = "retornou" /\ GarantirRetornoCorreto

\* The part of C12 that holds: whatever garantir_conexao returns is right.
GarantirQuandoRetorna ==
    (pcX = "g_fim" /\ gFim = "retornou") => GarantirRetornoCorreto

\* C13 - No leaked connection: at most one control connection is open, and
\* every open one is still referred to by the program (a handle that was
\* replaced or discarded has been closed first).
C13_NoLeakedConnection ==
    /\ Cardinality(abertas) <= 1
    /\ abertas \subseteq Referenciadas

\* C14 - Mode preference order: conectar_ftp tries protected+passive,
\* protected+active, clear+passive, clear+active in that order; it stops at
\* the first combination whose cwd to the origin succeeded and returns the
\* session configured with it; it returns None exactly when all four failed.
C14_ModePreferenceOrder ==
    /\ Len(tentados) <= 4
    /\ \A k \in 1..Len(tentados) :
          /\ k = 1 => tentados[k].modo = <<"P", TRUE>>
          /\ k = 2 => tentados[k].modo = <<"P", FALSE>>
          /\ k = 3 => tentados[k].modo = <<"C", TRUE>>
          /\ k = 4 => tentados[k].modo = <<"C", FALSE>>
          /\ k < Len(tentados) => ~tentados[k].ok
    /\ pcX = "c_modo" => \A k \in 1..Len(tentados) : ~tentados[k].ok
    /\ (pcX = "c_fim" /\ cFim = "sessao") =>
          /\ tentados # <<>>
          /\ tentados[Len(tentados)].ok
          /\ modo[cRet] = tentados[Len(tentados)].modo
    /\ pcX = "c_fim" =>
          (cFim = "none" <=>
             /\ Len(tentados) = 4
             /\ \A k \in 1..4 : ~tentados[k].ok)

\* conectar_ftp returned a session on the third combination, after the two
\* protected ones had failed.
C14_Witness ==
    /\ pcX = "c_fim" /\ cFim = "sessao"
    /\ Len(tentados) = 3
    /\ modo[cRet] = <<"C", TRUE>>

\* =====================================================================
\* Properties of the provisioner (receive.py)
\* =====================================================================

\* C15 - Idempotent provisioning: when assegurar_diretorio_remoto was called
\* twice in succession with the same path on a healthy session, both calls
\* succeeded, the second issued no MKD and left the directory tree as the
\* first call left it.
C15_IdempotentProvisioning ==
    (pcA = "a_fim" /\ chamada = 2 /\ saudavel) =>
       /\ fim1 = "ok" /\ fimA = "ok"
       /\ ~mkdEmitido
       /\ noServidor = noServidor1 /\ noServidor = NSeg

\* The second call ended on a healthy session after the first one had to
\* create a directory.
C15_Witness ==
    /\ pcA = "a_fim" /\ chamada = 2 /\ saudavel
    /\ mkd1 /\ NSeg >= 2 /\ fimA = "ok"

\* C16 - Provisioning failure: a call that does not succeed ends with the
\* provisioning error (RuntimeError) naming the failing segment, after at
\* most `tentativas` tries on it; no other error escapes.
C16_ProvisioningFailure ==
    (pcA = "a_fim" /\ fimA # "ok") =>
       /\ fimA = "provisao"
       /\ segFalha = seg /\ seg \in 1..NSeg
       /\ tenta <= TENTATIVAS_PROV

\* The part of C16 that holds: the RuntimeError names the segment being
\* ensured and is raised after exactly `tentativas` tries.
ErroDeProvisaoCorreto ==
    (pcA = "a_fim" /\ fimA = "provisao") =>
       /\ segFalha = seg /\ seg \in 1..NSeg
       /\ tenta = TENTATIVAS_PROV

\* =====================================================================
\* Properties of the strict run (receive.py), third part
\* =====================================================================

\* C21 - Bounded attempts: while an attempt of an item is under way its
\* number is between 1 and MAX_TENTATIVAS_POR_ARQUIVO; the counter moves
\* only by one, at a failed attempt (or starts again with the next item);
\* once the last attempt has failed the function has returned the permanent
\* failure and the run is over, so no further remote operation is issued.
C21_BoundedAttempts ==
    /\ [](/\ pc \in PosicoesDaTentativa =>
                tent \in 1..MAX_TENTATIVAS_POR_ARQUIVO
          /\ tent > MAX_TENTATIVAS_POR_ARQUIVO =>
                /\ tent = MAX_TENTATIVAS_POR_ARQUIVO + 1
                /\ pc = "done" /\ exitCode = Some(2)
                /\ result[idx] = "fail")
    /\ [][tent' # tent =>
             \/ /\ tent' = tent + 1 /\ idx' = idx
                /\ pc \in PosicoesDaTentativa
                /\ pc' \in {"keepalive", "done"}
             \/ /\ tent' \in {0, 1} /\ pc \in {"garantir", "main_keepalive"}]_vars

\* The last allowed attempt of an item failed and the run ended with the
\* permanent failure.
C21_Witness ==
    /\ pc = "done" /\ exitPath = "falha"
    /\ tent = MAX_TENTATIVAS_POR_ARQUIVO + 1
    /\ result[idx] = "fail"

\* ------------------------------------------------------------------ C22
\* C22: after a TLS error or a connection reset during the fetch or the
\* store of an item, the next attempt issues its fetch or relocation
\* commands on a fresh connection: no position of an attempt past the
\* keepalive (340-362) is reached on the session that suffered the fault.
C22_ForcedReconnect ==
    pc \in PosicoesDaTentativa \ {"keepalive"} => ~faltosa

\* ------------------------------------------------------------------ C23
RECURSIVE DoisElevado(_)
DoisElevado(n) == IF n = 0 THEN 1 ELSE 2 * DoisElevado(n - 1)

\* C23: inside the n-th attempt of an item the delay slept after the
\* previous failure was BACKOFF_INICIAL_S * 2^(n-2) (none before the first
\* attempt) and the delay for the next failure is BACKOFF_INICIAL_S * 2^(n-1),
\* whichever step failed; the sequence restarts with every new item.
C23_BackoffDoubling ==
    /\ pc \in PosicoesDaTentativa =>
          /\ backoff = BACKOFF_INICIAL_S * DoisElevado(tent - 1)
          /\ pausa = IF tent = 1 THEN None
                     ELSE Some(BACKOFF_INICIAL_S * DoisElevado(tent - 2))
    /\ (pc = "done" /\ exitPath = "falha" /\ tent > MAX_TENTATIVAS_POR_ARQUIVO) =>
          pausa = Some(BACKOFF_INICIAL_S * DoisElevado(tent - 2))

\* A later item is in its third attempt: the delays 1 and 2 were slept for
\* it, after the sequence had been restarted.
C23_Witness ==
    /\ idx > 1 /\ pc = "download" /\ tent = 3
    /\ pausa = Some(2 * BACKOFF_INICIAL_S) /\ backoff = 4 * BACKOFF_INICIAL_S

\* ------------------------------------------------------------------ C24
\* C24: whenever a RETR or STOR was issued on the session main holds, the
\* data-channel protection level in effect at that moment is the level of
\* the combination chosen when that session was connected; in particular a
\* session negotiated as clear is never turned into a protected one by the
\* reassertion before the transfer.
C24_ProtectionPreserved ==
    (pcX = "laco" /\ ftpM # 0 /\ prot_level # "none") =>
        prot_level = modo[ftpM][1]

\* ------------------------------------------------------------------ C25
\* C25: in the fallback, once the destination was stored and its size
\* verified, a DELE step that leaves the origin copy in place still ends
\* the relocation with success, and the stored destination is kept.
C25_DanglingOrigin ==
    [][(/\ pc = "dele" /\ storVerified
        /\ origin[idx] # "none" /\ origin'[idx] = origin[idx])
       => (/\ result'[idx] = "ok" /\ pc' = "main_keepalive"
           /\ dest'[idx] = dest[idx])]_vars

\* ------------------------------------------------------------------ C26
\* C26: a rename that succeeded and whose destination answers the expected
\* size ends the relocation with success in that very step, with no STOR,
\* no DELE and no provisioning; the fallback (413-444) is entered only from
\* a rename that raised or from a size check that did not match.
C26_RenameFastPath ==
    /\ [][(pc = "verify_rename" /\ pc' # pc) =>
            IF lastSize' # None /\ lastSize' = tam_local_cache
               THEN /\ pc' = "main_keepalive" /\ result'[idx] = "ok"
                    /\ UNCHANGED <<storDone, storVerified, deleIssued, origin,
                                   dest, tent>>
               ELSE pc' = "fb_cwd"]_vars
    /\ [][(pc' = "fb_cwd" /\ pc # pc') =>
            \/ pc = "rename"
            \/ /\ pc = "verify_rename"
               /\ ~(lastSize' # None /\ lastSize' = tam_local_cache)]_vars
    /\ [][(pc = "rename" /\ pc' # pc) =>
            pc' \in {"verify_rename", "fb_cwd"}]_vars
    /\ [][(pc' \in {"stor", "verify_stor", "dele"} /\ pc # pc') =>
            pc \in {"fb_cwd", "stor", "verify_stor"}]_vars

\* An item was relocated by the rename alone.
C26_Witness ==
    /\ pc = "main_keepalive" /\ result[idx] = "ok"
    /\ ~storDone /\ ~deleIssued
    /\ origin[idx] = "none" /\ dest[idx] = "full"
    /\ lastSize = tam_local_cache

Trabalho == lote \o fila

\* C28: the work order is a first-in first-out queue.  An item is taken for
\* an attempt only from its head; an item that failed below the cap is put
\* at its tail, behind everything that was queued at that moment, and never
\* into the pass that is running; nothing else reorders it, so items that
\* never failed are attempted in their original order.
C28_RequeueOrdering ==
    [][LET reagenda == /\ pcS = "registro"
                       /\ info.status \notin {"sucesso", "ignorado"}
                       /\ tentativas_por_arquivo[item] < MAX_REPROCESSOS
       IN
       /\ reagenda =>
            /\ fila' = Append(fila, item)
            /\ lote' = lote
            /\ \A k \in 1..Len(lote') : lote'[k] # item
       /\ \/ Trabalho' = Trabalho
          \/ /\ pcS = "item" /\ Trabalho # <<>>
             /\ item' = Head(Trabalho) /\ Trabalho' = Tail(Trabalho)
          \/ /\ reagenda /\ Trabalho' = Append(Trabalho, item)
          \/ /\ pcS = "start" /\ Trabalho = <<>>
             /\ Trabalho' = [i \in 1..NS |-> i]]_vars

\* Item 1 failed and waits in the queue behind item 2, which is still to be
\* attempted in the running pass.
C28_Witness ==
    /\ pcS = "registro" /\ item = 2 /\ info.status = "falha"
    /\ fila = <<1>> /\ lote = <<>> /\ falhas[1] = 1
    /\ tentativas_por_arquivo[2] < MAX_REPROCESSOS

\* ------------------------------------------------------------------ C29
\* No command was issued for any candidate and no local file was written.
NadaTocado ==
    /\ idx = 0 /\ tent = 0
    /\ \A i \in Items :
         /\ ~touched[i]
         /\ origin[i] = (IF i <= N THEN "full" ELSE "none")
         /\ dest[i] = "none" /\ localf[i] = "none" /\ result[i] = "none"
    /\ ~storDone /\ ~deleIssued /\ ~retrComCache

\* Nothing was uploaded, deleted or moved to the sent folder.
NadaEnviado ==
    /\ chamadas = 0 /\ relatorio_envios = <<>> /\ fila = <<>> /\ lote = <<>>
    /\ \A i \in SendItems :
         /\ remoto[i] = "none" /\ ~sent[i] /\ toSend[i] = (i <= NS)
         /\ tentativas_por_arquivo[i] = 0

C30_CreateExistsRace ==
    /\ [][pcA' = "a_cwd2" =>
            /\ pcA = "a_mkd" /\ mkdEmitido'
            /\ seg' = seg /\ tenta' = tenta]_vars
    /\ [][(pcA = "a_cwd2" /\ vivaA /\ vivaA' /\ seg <= noServidor) =>
            \/ /\ seg < NSeg /\ seg' = seg + 1 /\ tenta' = 1
               /\ pcA' = "a_cwd" /\ fimA' = "none"
            \/ /\ seg = NSeg /\ pcA' = "a_fim" /\ fimA' = "ok"
               /\ tenta' = tenta /\ segFalha' = 0]_vars

\* Every segment existed when the second call began; the call sent MKD
\* nevertheless (its cwd had failed), and returned normally in the first
\* turn for the last segment: the cwd after error_perm decided.
C30_Witness ==
    /\ chamada = 2 /\ noServidor1 = NSeg /\ NSeg >= 1
    /\ pcA = "a_fim" /\ fimA = "ok"
    /\ mkdEmitido /\ seg = NSeg /\ tenta = 1

\* ------------------------------------------------------------------ C31
\* C31: a call of enviar_para_ftp makes at most max_tentativas attempts
\* (as many as there are transfer modes when max_tentativas <= 0) and so
\* issues at most that many STORs; the STOR of attempt t is sent with mode
\* MODOS_TRANSFERENCIA[(t-1) mod len]; the call returns "sucesso" in the
\* attempt whose size check equalled the local size and makes no attempt
\* after it; it returns "falha" after the last attempt (or as soon as no
\* session can be had); an item gets at most MAX_REPROCESSOS times that
\* many STORs in the run.
C31_UploadAttempts ==
    /\ [](LET M == IF max_tentativas <= 0 THEN Len(MODOS_TRANSFERENCIA)
                                          ELSE max_tentativas
          IN
          /\ tentativa <= M /\ storsChamada <= tentativa
          /\ \A i \in SendItems : stors[i] <= MAX_REPROCESSOS * M
          /\ info.status = "sucesso" =>
                /\ pcS = "registro" /\ storsChamada >= 1
                /\ info.tamanho_remoto = Some(info.tamanho_local)
                /\ info.tentativas = tentativa
                /\ modoStor = MODOS_TRANSFERENCIA[
                                 ((tentativa - 1) % Len(MODOS_TRANSFERENCIA)) + 1]
          /\ info.status = "falha" =>
                /\ pcS = "registro"
                /\ info.tentativas = M \/ ftpS = "none")
    /\ [][storsChamada' > storsChamada =>
            /\ pcS = "envio" /\ storsChamada' = storsChamada + 1
            /\ stors' = [stors EXCEPT ![item] = @ + 1]
            /\ modoStor' = MODOS_TRANSFERENCIA[
                              ((tentativa - 1) % Len(MODOS_TRANSFERENCIA)) + 1]]_vars
    /\ [][stors' # stors => storsChamada' > storsChamada]_vars
    /\ [][(pcS = "envio" /\ pcS' = "envio") =>
            /\ tentativa' = tentativa + 1 /\ info'.status = "pendente"]_vars

\* The third call for an item succeeds in its third attempt, sent with the
\* first mode again, after every earlier attempt of the run had issued
\* its STOR.
C31_Witness ==
    /\ pcS = "registro" /\ info.status = "sucesso"
    /\ max_tentativas = MAX_TENTATIVAS_ENVIO
    /\ tentativa = 3 /\ storsChamada = 3
    /\ modoStor = MODOS_TRANSFERENCIA[1]
    /\ stors[item] = MAX_REPROCESSOS * MAX_TENTATIVAS_ENVIO

\* ------------------------------------------------------------------ C32
\* C32: when the local file of the item is missing as enviar_para_ftp is
\* entered, the call returns "ignorado" at once: the handle it was given is
\* the handle it returns and no STOR, DELE or other remote command is
\* issued; main then appends the one record of the item, does not put it
\* back in the queue and does not move anything to the sent root.
C32_SkippedItem ==
    /\ [][(pcS = "chamada" /\ ~toSend'[item]) =>
            /\ info'.status = "ignorado" /\ info'.tentativas = 0
            /\ pcS' = "registro"
            /\ UNCHANGED <<ftpS, remoto, stors, storsChamada, deleEnvio, sent,
                           fila, lote, relatorio_envios>>]_vars
    /\ [][(pcS = "registro" /\ info.status = "ignorado") =>
            /\ Len(relatorio_envios') = Len(relatorio_envios) + 1
            /\ relatorio_envios'[Len(relatorio_envios')].arquivo = item
            /\ relatorio_envios'[Len(relatorio_envios')].status = "ignorado"
            /\ UNCHANGED <<fila, lote, sent, toSend, ftpS, remoto, stors>>]_vars
    /\ [](/\ info.status = "ignorado" =>
                /\ pcS = "registro" /\ storsChamada = 0
                /\ ~toSend[item] /\ ~sent[item]
          /\ \A k \in 1..Len(relatorio_envios) :
                LET r == relatorio_envios[k] IN
                r.status = "ignorado" =>
                    /\ Cardinality(Registros(r.arquivo)) = 1
                    /\ ~Pendente(r.arquivo)
                    /\ ~sent[r.arquivo] /\ ~toSend[r.arquivo])

\* The file of an item vanished after a failed call had put the item back
\* in the queue; the run ended with its single record "ignorado".
C32_Witness ==
    /\ pcS = "fim"
    /\ \E k \in 1..Len(relatorio_envios) :
          /\ relatorio_envios[k].status = "ignorado"
          /\ falhas[relatorio_envios[k].arquivo] >= 1
          /\ stors[relatorio_envios[k].arquivo] >= 1

\* ------------------------------------------------------------------ C33
\* C33: whenever the strict run is about to issue RETR with the bare item
\* name (369: no size is cached) on a session that answers, the remote
\* working directory of the session is the origin directory.
C33_WorkingDirectory ==
    (pc = "download" /\ tam_local_cache = None /\ ftp = "open" /\ alive) =>
        cwd = "origem"

\* ------------------------------------------------------------------ C34
\* C34: in the report of the sender, and in the result of the call under
\* way, a "sucesso" carries a remote size that is present and equal to the
\* local size; a result whose remote size is absent or different from the
\* local size is a "falha" or an "ignorado" when it is recorded.
C34_RecordSizePair ==
    /\ \A k \in 1..Len(relatorio_envios) :
          LET r == relatorio_envios[k] IN
          /\ r.status = "sucesso" =>
                (r.tamanho_remoto # None /\ r.tamanho_remoto[1] = r.tamanho_local)
          /\ (r.tamanho_remoto = None \/ r.tamanho_remoto[1] # r.tamanho_local) =>
                r.status \in {"falha", "ignorado"}
    /\ (pcS = "registro" /\ info.status = "sucesso") =>
          (info.tamanho_remoto # None /\ info.tamanho_remoto[1] = info.tamanho_local)
    /\ (pcS = "registro" /\ (info.tamanho_remoto = None
                               \/ info.tamanho_remoto[1] # info.tamanho_local)) =>
          info.status \in {"falha", "ignorado"}

\* The report holds a success, a failure whose last size answer was the
\* size of a truncated file, and the run is over.
C34_Witness ==
    /\ pcS = "fim"
    /\ \E k \in 1..Len(relatorio_envios) :
          /\ relatorio_envios[k].status = "sucesso"
          /\ relatorio_envios[k].tamanho_remoto = Some(ItemSize)
    /\ \E k \in 1..Len(relatorio_envios) :
          /\ relatorio_envios[k].status = "falha"
          /\ relatorio_envios[k].tamanho_remoto = Some(ItemSize - 1)
====
